---- MODULE Spec2Model ----
(***************************************************************************)
(* A model of the JSON document library of src/src/json.c: the element     *)
(* tree with its constructors and destructors, the serializer              *)
(* json_element_to_simple_string and the recursive-descent parser          *)
(* parse_json_ext.                                                         *)
(*                                                                         *)
(* Memory is modelled as a heap of cells.  Every allocation appends one    *)
(* cell; free() counts how often a cell was released, so a leak is a cell  *)
(* with count 0 and a double free a cell with count 2.  Characters are     *)
(* wchar_t code points; L'\0' (the end marker of get_char) is 0.           *)
(***************************************************************************)
EXTENDS Integers, Sequences, FiniteSets, TLC

VARIABLES
    heap,     \* [cells, frees]: every allocation made so far
    root,     \* handle of the document built through the constructor API
    calls,    \* history of the constructor calls that attached a node
    wstr,     \* result of json_element_to_simple_string, a heap address
    text,     \* the wide_string_t handed to parse_json_ext
    items,    \* the items the string literal in text was written from
    numlib,   \* which literals the numeric utility's parse_number accepts
    doc,      \* the return value of parse_json_ext
    err,      \* the caller's json_error_t
    src,      \* the source_t of the parse, as parse_json_ext left it
    mark,     \* number of heap cells that existed when the parse began
    pc,       \* [root, parse]: how far the caller is with each document
    last      \* the last operation called: [op, arg]

vars == <<heap, root, calls, wstr, text, items, numlib, doc, err, src, mark, pc, last>>

NULL == 0
json_error_text_max_length == 16

\* Bounds of the model
MaxCalls == 4
MaxLen == 5
MaxItems == 3
MaxNumLen == 5
MaxMembers == 2
MaxWord == 4
MaxRun == 17
MaxLine == 5
MaxWs == 1

\* ------------------------------------------------------------------------
\* Characters

Ch == [nul |-> 0, bs |-> 8, tab |-> 9, lf |-> 10, ff |-> 12, cr |-> 13,
       space |-> 32, quote |-> 34, plus |-> 43, comma |-> 44, minus |-> 45,
       dot |-> 46, slash |-> 47, zero |-> 48, nine |-> 57, colon |-> 58,
       A |-> 65, E |-> 69, F |-> 70, Z |-> 90, lbracket |-> 91,
       backslash |-> 92, rbracket |-> 93, underscore |-> 95, a |-> 97,
       b |-> 98, e |-> 101, f |-> 102, n |-> 110, r |-> 114, t |-> 116,
       u |-> 117, z |-> 122, lbrace |-> 123, rbrace |-> 125]

W_null == <<110, 117, 108, 108>>
W_true == <<116, 114, 117, 101>>
W_false == <<102, 97, 108, 115, 101>>

\* ------------------------------------------------------------------------
\* The heap

number_t(is_number, m, e) == [is_number |-> is_number, m |-> m, e |-> e]

NoCell ==
    [tag |-> "none", type |-> "none", parent |-> NULL, ptr |-> NULL,
     bool_value |-> FALSE, num_value |-> number_t(FALSE, 0, 0),
     chars |-> <<>>, items |-> <<>>, pairs |-> <<>>]

EmptyHeap == [cells |-> <<>>, frees |-> <<>>]

nnalloc(h, cell) ==
    [h |-> [cells |-> Append(h.cells, cell), frees |-> Append(h.frees, 0)],
     ret |-> Len(h.cells) + 1]

free(h, p) ==
    IF p = NULL THEN h ELSE [h EXCEPT !.frees[p] = @ + 1]

\* ------------------------------------------------------------------------
\* The string, map and vector utilities json.c is built on

duplicate_wide_string(h, s) ==
    nnalloc(h, [NoCell EXCEPT !.tag = "wide_string", !.chars = s])

create_wide_string_builder(h) ==
    nnalloc(h, [NoCell EXCEPT !.tag = "wide_string"])

append_wide_char(h, b, c) ==
    IF b = NULL
    THEN nnalloc(h, [NoCell EXCEPT !.tag = "wide_string", !.chars = <<c>>])
    ELSE [h |-> [h EXCEPT !.cells[b].chars = Append(@, c)], ret |-> b]

append_char(h, b, c) ==
    IF b = NULL
    THEN nnalloc(h, [NoCell EXCEPT !.tag = "string", !.chars = <<c % 256>>])
    ELSE [h |-> [h EXCEPT !.cells[b].chars = Append(@, c % 256)], ret |-> b]


\* negative, zero or positive: the order of the keys of an object
compare_wide_strings(s, t) ==
    LET n == IF Len(s) < Len(t) THEN Len(s) ELSE Len(t)
        d == {i \in 1..n : s[i] # t[i]}
    IN  IF d = {}
        THEN Len(s) - Len(t)
        ELSE LET i == CHOOSE j \in d : \A k \in d : j <= k
             IN  s[i] - t[i]

are_wide_strings_equal(s, t) == s = t

create_tree_map(h) == nnalloc(h, [NoCell EXCEPT !.tag = "tree_map"])

InsertAt(s, i, x) == SubSeq(s, 1, i - 1) \o <<x>> \o SubSeq(s, i, Len(s))

\* keys are unique and kept in key order; an existing key keeps its key
\* object, takes the new value and hands the old value back
add_pair_to_tree_map(h, map, key, value) ==
    LET ps == h.cells[map].pairs
        k == h.cells[key].chars
        same == {i \in 1..Len(ps) : compare_wide_strings(h.cells[ps[i].key].chars, k) = 0}
        below == {i \in 1..Len(ps) : compare_wide_strings(h.cells[ps[i].key].chars, k) < 0}
    IN  IF same # {}
        THEN LET i == CHOOSE j \in same : TRUE
             IN  [h |-> [h EXCEPT !.cells[map].pairs[i].value = value],
                  ret |-> ps[i].value]
        ELSE [h |-> [h EXCEPT !.cells[map].pairs =
                        InsertAt(@, Cardinality(below) + 1, [key |-> key, value |-> value])],
              ret |-> NULL]

create_vector(h) == nnalloc(h, [NoCell EXCEPT !.tag = "vector"])

add_item_to_vector(h, vector, item) ==
    [h EXCEPT !.cells[vector].items = Append(@, item)]

\* ------------------------------------------------------------------------
\* The numeric utility: a number is m * 10^e, m without trailing zeros

RECURSIVE normalize_number(_, _)
normalize_number(m, e) ==
    IF m = 0 THEN number_t(TRUE, 0, 0)
    ELSE IF m % 10 = 0 THEN normalize_number(m \div 10, e + 1)
    ELSE number_t(TRUE, m, e)

init_number_by_real(value) == normalize_number(value.m, value.e)

negate_number(num) == [num EXCEPT !.m = 0 - @]

RECURSIVE Digits(_)
Digits(n) ==
    IF n < 10 THEN <<Ch.zero + n>> ELSE Append(Digits(n \div 10), Ch.zero + (n % 10))

Zeros(n) == [i \in 1..n |-> Ch.zero]

print_number(num) ==
    LET abs == IF num.m < 0 THEN 0 - num.m ELSE num.m
        sign == IF num.m < 0 THEN <<Ch.minus>> ELSE <<>>
        d == Digits(abs)
        k == 0 - num.e
    IN  IF num.e >= 0 THEN sign \o d \o Zeros(num.e)
        ELSE IF Len(d) > k
        THEN sign \o SubSeq(d, 1, Len(d) - k) \o <<Ch.dot>> \o SubSeq(d, Len(d) - k + 1, Len(d))
        ELSE sign \o <<Ch.zero, Ch.dot>> \o Zeros(k - Len(d)) \o d

\* ------------------------------------------------------------------------
\* Destructors

RECURSIVE destroy_json_element(_, _)
RECURSIVE destroy_pairs(_, _, _)
RECURSIVE destroy_items(_, _, _)

destroy_pairs(h, ps, i) ==
    IF i > Len(ps) THEN h
    ELSE destroy_pairs(destroy_json_element(free(h, ps[i].key), ps[i].value), ps, i + 1)

destroy_tree_map_and_content(h, map) ==
    free(destroy_pairs(h, h.cells[map].pairs, 1), map)

destroy_items(h, its, i) ==
    IF i > Len(its) THEN h
    ELSE destroy_items(destroy_json_element(h, its[i]), its, i + 1)

destroy_vector_and_content(h, vector) ==
    free(destroy_items(h, h.cells[vector].items, 1), vector)

json_null_destructor(h, elem) == free(h, elem)

json_object_destructor(h, elem) ==
    free(destroy_tree_map_and_content(h, h.cells[elem].ptr), elem)

json_array_destructor(h, elem) ==
    free(destroy_vector_and_content(h, h.cells[elem].ptr), elem)

\* the destructor with the free of the text left out
json_string_destructor_without_text(h, elem) == free(h, elem)

json_string_destructor(h, elem) ==
    free(free(h, h.cells[elem].ptr), elem)

json_number_destructor(h, elem) == free(h, elem)

json_boolean_destructor(h, elem) == free(h, elem)

destructors(h, elem) ==
    CASE h.cells[elem].type = "json_null" -> json_null_destructor(h, elem)
      [] h.cells[elem].type = "json_object" -> json_object_destructor(h, elem)
      [] h.cells[elem].type = "json_array" -> json_array_destructor(h, elem)
      [] h.cells[elem].type = "json_string" -> json_string_destructor(h, elem)
      [] h.cells[elem].type = "json_number" -> json_number_destructor(h, elem)
      [] h.cells[elem].type = "json_boolean" -> json_boolean_destructor(h, elem)

destroy_json_element(h, this) ==
    IF this # NULL THEN destructors(h, this) ELSE h

\* ------------------------------------------------------------------------
\* Constructors

Element(type) == [NoCell EXCEPT !.tag = "element", !.type = type]

SetParent(r, parent) ==
    [h |-> [r.h EXCEPT !.cells[r.ret].parent = parent], ret |-> r.ret]

instantiate_json_null(h) == nnalloc(h, Element("json_null"))

instantiate_json_object(h) ==
    LET e == nnalloc(h, Element("json_object"))
        m == create_tree_map(e.h)
    IN  [h |-> [m.h EXCEPT !.cells[e.ret].ptr = m.ret], ret |-> e.ret]

instantiate_json_array(h) ==
    LET e == nnalloc(h, Element("json_array"))
        v == create_vector(e.h)
    IN  [h |-> [v.h EXCEPT !.cells[e.ret].ptr = v.ret], ret |-> e.ret]

instantiate_json_string(h, value) ==
    LET e == nnalloc(h, Element("json_string"))
        s == duplicate_wide_string(e.h, value)
    IN  [h |-> [s.h EXCEPT !.cells[e.ret].ptr = s.ret], ret |-> e.ret]

instantiate_json_number(h, value) ==
    nnalloc(h, [Element("json_number") EXCEPT !.num_value = value])

instantiate_json_boolean(h, value) ==
    nnalloc(h, [Element("json_boolean") EXCEPT !.bool_value = value])

create_json_null(h) == SetParent(instantiate_json_null(h), NULL)

create_json_null_at_end_of_array(h, this) ==
    LET e == SetParent(instantiate_json_null(h), this)
    IN  [h |-> add_item_to_vector(e.h, e.h.cells[this].ptr, e.ret), ret |-> e.ret]

create_json_object(h) == SetParent(instantiate_json_object(h), NULL)

create_json_array(h) == SetParent(instantiate_json_array(h), NULL)

create_json_string(h, value) == SetParent(instantiate_json_string(h, value), NULL)

\* the call with free(key_copy) left out
create_json_string_owned_by_object_without_free(h, this, key, value) ==
    LET key_copy == duplicate_wide_string(h, key)
        new_elem == SetParent(instantiate_json_string(key_copy.h, value), this)
        old_elem == add_pair_to_tree_map(new_elem.h, new_elem.h.cells[this].ptr,
                                         key_copy.ret, new_elem.ret)
    IN  IF old_elem.ret # NULL
        THEN [h |-> destroy_json_element(old_elem.h, old_elem.ret), ret |-> new_elem.ret]
        ELSE [h |-> old_elem.h, ret |-> new_elem.ret]

create_json_string_owned_by_object(h, this, key, value) ==
    LET key_copy == duplicate_wide_string(h, key)
        new_elem == SetParent(instantiate_json_string(key_copy.h, value), this)
        old_elem == add_pair_to_tree_map(new_elem.h, new_elem.h.cells[this].ptr,
                                         key_copy.ret, new_elem.ret)
    IN  IF old_elem.ret # NULL
        THEN [h |-> destroy_json_element(free(old_elem.h, key_copy.ret), old_elem.ret),
              ret |-> new_elem.ret]
        ELSE [h |-> old_elem.h, ret |-> new_elem.ret]

create_json_string_at_end_of_array(h, this, value) ==
    LET e == SetParent(instantiate_json_string(h, value), this)
    IN  [h |-> add_item_to_vector(e.h, e.h.cells[this].ptr, e.ret), ret |-> e.ret]

create_json_number(h, value) ==
    SetParent(instantiate_json_number(h, init_number_by_real(value)), NULL)

create_json_number_at_end_of_array(h, this, value) ==
    LET e == SetParent(instantiate_json_number(h, init_number_by_real(value)), this)
    IN  [h |-> add_item_to_vector(e.h, e.h.cells[this].ptr, e.ret), ret |-> e.ret]

create_json_boolean(h, value) == SetParent(instantiate_json_boolean(h, value), NULL)

create_json_boolean_at_end_of_array(h, this, value) ==
    LET e == SetParent(instantiate_json_boolean(h, value), this)
    IN  [h |-> add_item_to_vector(e.h, e.h.cells[this].ptr, e.ret), ret |-> e.ret]

\* ------------------------------------------------------------------------
\* stringify (to simple string); the builder is the text built so far

RECURSIVE simple_string_builders(_, _, _)
RECURSIVE object_to_simple_string_loop(_, _, _, _, _)
RECURSIVE array_to_simple_string_loop(_, _, _, _)

json_null_to_simple_string(h, elem, builder) == builder \o W_null

RECURSIVE object_to_simple_string_loop_without_flag(_, _, _, _, _)
\* the loop with the test of flag left out: a separator before every member
object_to_simple_string_loop_without_flag(h, ps, i, flag, builder) ==
    IF i > Len(ps) THEN builder
    ELSE object_to_simple_string_loop_without_flag(h, ps, i + 1, TRUE,
             simple_string_builders(h, ps[i].value,
                 builder \o <<Ch.comma, Ch.space, Ch.quote>> \o h.cells[ps[i].key].chars
                         \o <<Ch.quote, Ch.colon, Ch.space>>))

\* the while loop over the map iterator (key order), flag as in the code
object_to_simple_string_loop(h, ps, i, flag, builder) ==
    IF i > Len(ps) THEN builder
    ELSE LET b1 == IF flag THEN builder \o <<Ch.comma, Ch.space>> ELSE builder
             b2 == b1 \o <<Ch.quote>> \o h.cells[ps[i].key].chars
                      \o <<Ch.quote, Ch.colon, Ch.space>>
         IN  object_to_simple_string_loop(h, ps, i + 1, TRUE,
                                          simple_string_builders(h, ps[i].value, b2))

json_object_to_simple_string(h, elem, builder) ==
    object_to_simple_string_loop(h, h.cells[h.cells[elem].ptr].pairs, 1, FALSE,
                                 builder \o <<Ch.lbrace>>) \o <<Ch.rbrace>>

\* the for loop over the vector; i is the C index, from 0
array_to_simple_string_loop(h, its, i, builder) ==
    IF ~(i < Len(its)) THEN builder
    ELSE LET b1 == IF i # 0 THEN builder \o <<Ch.comma, Ch.space>> ELSE builder
         IN  array_to_simple_string_loop(h, its, i + 1,
                                         simple_string_builders(h, its[i + 1], b1))

json_array_to_simple_string(h, elem, builder) ==
    array_to_simple_string_loop(h, h.cells[h.cells[elem].ptr].items, 0,
                                builder \o <<Ch.lbracket>>) \o <<Ch.rbracket>>

json_string_to_simple_string(h, elem, builder) ==
    builder \o <<Ch.quote>> \o h.cells[h.cells[elem].ptr].chars \o <<Ch.quote>>

json_number_to_simple_string(h, elem, builder) ==
    builder \o print_number(h.cells[elem].num_value)

json_boolean_to_simple_string(h, elem, builder) ==
    builder \o (IF h.cells[elem].bool_value THEN W_true ELSE W_false)

simple_string_builders(h, elem, builder) ==
    CASE h.cells[elem].type = "json_null" -> json_null_to_simple_string(h, elem, builder)
      [] h.cells[elem].type = "json_object" -> json_object_to_simple_string(h, elem, builder)
      [] h.cells[elem].type = "json_array" -> json_array_to_simple_string(h, elem, builder)
      [] h.cells[elem].type = "json_string" -> json_string_to_simple_string(h, elem, builder)
      [] h.cells[elem].type = "json_number" -> json_number_to_simple_string(h, elem, builder)
      [] h.cells[elem].type = "json_boolean" -> json_boolean_to_simple_string(h, elem, builder)

\* the text of the wide string the call returns
simple_string(h, this) == simple_string_builders(h, this, <<>>)

json_element_to_simple_string(h, this) ==
    nnalloc(h, [NoCell EXCEPT !.tag = "wide_string", !.chars = simple_string(h, this)])

\* ------------------------------------------------------------------------
\* error

json_error_types ==
    {"json_ok", "json_unknown_symbol", "json_incorrect_number_format",
      "json_incorrect_escape_character",
      "json_missing_closing_quotation_mark_in_string",
      "json_missing_closing_bracket", "json_unrecognized_entity",
      "json_expected_comma_separator", "json_expected_colon_separator",
      "json_expected_name", "json_expected_element"}

\* memset(err, 0, sizeof(json_error_t)); log is no field of json_error_t: it
\* is the history of the writes of err->type, each with the kind and the text
\* the record held after the write and the cursor at that moment
ZeroError(present) ==
    [present |-> present, type |-> "json_ok", text |-> <<>>,
     where |-> [row |-> 0, column |-> 0], log |-> <<>>]

\* if (err) { err->type = ...; err->text = ... }
SetError(p, type, snippet) ==
    IF p.err.present
    THEN [p EXCEPT !.err.type = type, !.err.text = snippet,
                   !.err.log = Append(@, [type |-> type, text |-> snippet, src |-> p.src])]
    ELSE p

\* if (err) err->type = ...
SetErrorType(p, type) ==
    IF p.err.present
    THEN [p EXCEPT !.err.type = type,
                   !.err.log = Append(@, [type |-> type, text |-> p.err.text, src |-> p.src])]
    ELSE p

\* ------------------------------------------------------------------------
\* parser: character classes and the source

\* the function with the tab left out
is_space_without_tab(c) == c = Ch.space \/ c = Ch.lf \/ c = Ch.cr

is_space(c) == c = Ch.space \/ c = Ch.tab \/ c = Ch.lf \/ c = Ch.cr

\* the function with the underscore left out
is_letter_without_underscore(c) ==
    (c >= Ch.A /\ c <= Ch.Z) \/ (c >= Ch.a /\ c <= Ch.z)

is_letter(c) ==
    (c >= Ch.A /\ c <= Ch.Z) \/ (c >= Ch.a /\ c <= Ch.z) \/ c = Ch.underscore

is_digit(c) == c >= Ch.zero /\ c <= Ch.nine

is_hex_digit(c) ==
    (c >= Ch.zero /\ c <= Ch.nine) \/ (c >= Ch.A /\ c <= Ch.F) \/ (c >= Ch.a /\ c <= Ch.f)

convert_hex_digit(c) ==
    IF c >= Ch.zero /\ c <= Ch.nine THEN c - Ch.zero
    ELSE IF c >= Ch.A /\ c <= Ch.F THEN c - Ch.A + 10
    ELSE IF c >= Ch.a /\ c <= Ch.f THEN c - Ch.a + 10
    ELSE 0 - 1

\* loops is history: the loop and the index of the cursor at every start of
\* an iteration and at every test of a loop condition, in the order of execution
init_source(t) ==
    [text |-> t, index |-> 0, pos |-> [row |-> 1, column |-> 1], loops |-> <<>>]

get_char(s) == IF s.index < Len(s.text) THEN s.text[s.index + 1] ELSE Ch.nul

\* the update of the position with the test for '\r' left out
next_pos_without_cr(pos, c) ==
    IF c = Ch.lf THEN [row |-> pos.row + 1, column |-> 1]
    ELSE [row |-> pos.row, column |-> pos.column + 1]

\* the position after consuming the character c
next_pos(pos, c) ==
    IF c = Ch.lf THEN [row |-> pos.row + 1, column |-> 1]
    ELSE IF c = Ch.cr THEN [row |-> pos.row, column |-> 1]
    ELSE [row |-> pos.row, column |-> pos.column + 1]

\* returns the source as advanced and the character now under the cursor
next_char(s) ==
    IF s.index < Len(s.text)
    THEN [src |-> [s EXCEPT !.pos = next_pos(s.pos, s.text[s.index + 1]), !.index = @ + 1],
          c |-> get_char([s EXCEPT !.index = @ + 1])]
    ELSE [src |-> s, c |-> Ch.nul]

RECURSIVE skip_spaces(_, _)
\* while (is_space(c)) c = next_char(src)
skip_spaces(s, c) ==
    IF is_space(c) THEN skip_spaces(next_char(s).src, next_char(s).c)
    ELSE [src |-> s, c |-> c]

get_char_but_not_space(s) == skip_spaces(s, get_char(s))

next_char_but_not_space(s) == skip_spaces(next_char(s).src, next_char(s).c)

\* ------------------------------------------------------------------------
\* The state of a parse: src and err are the arguments every parse function
\* takes, h is the heap, lib the numeric utility; c and b are the locals
\* "wchar_t c" and "builder b" of the function that is running, ret is the
\* value the function that just returned handed back.

\* c = get_char(src)
GetChar(p) == [p EXCEPT !.c = get_char(p.src)]

\* c = next_char(src)
NextChar(p) == [p EXCEPT !.src = next_char(p.src).src, !.c = next_char(p.src).c]

\* next_char(src)
Advance(p) == [p EXCEPT !.src = next_char(p.src).src]

\* c = get_char_but_not_space(src)
GetCharButNotSpace(p) ==
    [p EXCEPT !.src = get_char_but_not_space(p.src).src,
              !.c = get_char_but_not_space(p.src).c]

\* c = next_char_but_not_space(src)
NextCharButNotSpace(p) ==
    [p EXCEPT !.src = next_char_but_not_space(p.src).src,
              !.c = next_char_but_not_space(p.src).c]

\* b = append_wide_char(b, c)
AppendWide(p, c) ==
    [p EXCEPT !.h = append_wide_char(p.h, p.b, c).h,
              !.b = append_wide_char(p.h, p.b, c).ret]

\* b = append_char(b, (char)c)
AppendNarrow(p, c) ==
    [p EXCEPT !.h = append_char(p.h, p.b, c).h,
              !.b = append_char(p.h, p.b, c).ret]

\* builder b = NULL
NoBuilder(p) == [p EXCEPT !.b = NULL]

\* free(b)
FreeBuilder(p) == [p EXCEPT !.h = free(p.h, p.b)]

\* return ret
Return(p, ret) == [p EXCEPT !.ret = ret]

\* return the element the allocation r made
ReturnNew(p, r) == [p EXCEPT !.h = r.h, !.ret = r.ret]

\* ------------------------------------------------------------------------
\* parse_string

RECURSIVE parse_string_loop(_)
RECURSIVE parse_string_hex(_, _, _, _)

Escapes ==
    [c \in {Ch.quote, Ch.backslash, Ch.slash, Ch.b, Ch.f, Ch.n, Ch.r, Ch.t} |->
        CASE c = Ch.quote -> Ch.quote
          [] c = Ch.backslash -> Ch.backslash
          [] c = Ch.slash -> Ch.slash
          [] c = Ch.b -> Ch.bs
          [] c = Ch.f -> Ch.ff
          [] c = Ch.n -> Ch.lf
          [] c = Ch.r -> Ch.cr
          [] c = Ch.t -> Ch.tab]

\* the body of the for loop of case 'u' after c = next_char(src); h[i] = c
parse_string_hex_digit(p, i, k, hx) ==
    IF ~is_hex_digit(p.c)
    THEN Return(FreeBuilder(SetError(p, "json_incorrect_number_format", hx)), NULL)
    ELSE parse_string_hex(p, i + 1, k * 16 + convert_hex_digit(p.c), hx)

\* the for loop of case 'u': i counts from 0, hx is h[0..i-1], k the value so far;
\* after it, c = (wchar_t)k is appended and the while loop goes on
parse_string_hex(p, i, k, hx) ==
    IF ~(i < 4)
    THEN parse_string_loop(NextChar(AppendWide(p, k)))
    ELSE parse_string_hex_digit(NextChar(p), i, k, Append(hx, next_char(p.src).c))

\* the switch with a default case that appends the character
parse_string_escape_without_default(p) ==
    IF p.c \in DOMAIN Escapes
    THEN parse_string_loop(NextChar(AppendWide(p, Escapes[p.c])))
    ELSE IF p.c = Ch.u
    THEN parse_string_hex(p, 0, 0, <<>>)
    ELSE parse_string_loop(NextChar(AppendWide(p, p.c)))

\* switch(c) after c = next_char(src)
parse_string_escape(p) ==
    IF p.c \in DOMAIN Escapes
    THEN parse_string_loop(NextChar(AppendWide(p, Escapes[p.c])))
    ELSE IF p.c = Ch.u
    THEN parse_string_hex(p, 0, 0, <<>>)
    ELSE Return(FreeBuilder(SetError(p, "json_incorrect_escape_character", <<p.c>>)), NULL)

\* one test of the while condition, the loop body, and what follows the loop
parse_string_loop(p) ==
    LET q == [p EXCEPT !.src.loops = Append(@, [loop |-> "parse_string",
                                                index |-> p.src.index])]
    IN  IF q.c # Ch.quote /\ q.c # Ch.nul
        THEN IF q.c = Ch.backslash
             THEN parse_string_escape(NextChar(q))
             ELSE parse_string_loop(NextChar(AppendWide(q, q.c)))
        ELSE IF q.c = Ch.nul
        THEN Return(FreeBuilder(SetErrorType(q,
                        "json_missing_closing_quotation_mark_in_string")), NULL)
        ELSE Return(Advance(q), q.b)

\* the function with c = get_char(src) left out
parse_string_without_get_char(p) == parse_string_loop(NoBuilder(p))

parse_string(p) == parse_string_loop(GetChar(NoBuilder(p)))

\* ------------------------------------------------------------------------
\* The numeric utility's parse_number.  Its grammar is not fixed by json.c:
\* lib = "unsigned" accepts digit+ ('.' digit+)? ([eE] [+-]? digit+)? only,
\* lib = "signed" accepts the same with a leading '+' or '-' as well.

At(s, i) == IF i >= 1 /\ i <= Len(s) THEN s[i] ELSE Ch.nul

RECURSIVE ScanDigits(_, _)
ScanDigits(s, i) == IF is_digit(At(s, i)) THEN ScanDigits(s, i + 1) ELSE i

RECURSIVE DigitsValue(_, _, _, _)
\* the decimal value of acc followed by the digits s[from..to-1]
DigitsValue(acc, s, from, to) ==
    IF from >= to THEN acc
    ELSE DigitsValue(acc * 10 + (s[from] - Ch.zero), s, from + 1, to)

\* a C string ends at its first NUL
CStr(chars) ==
    IF \A i \in 1..Len(chars) : chars[i] # Ch.nul THEN chars
    ELSE SubSeq(chars, 1, (CHOOSE i \in 1..Len(chars) :
                              chars[i] = Ch.nul /\ \A j \in 1..(i - 1) : chars[j] # Ch.nul) - 1)

\* the number with integer digits s[st..i1-1], fraction digits s[i1+1..i2-1]
\* and exponent digits s[j..i3-1]
NumberValue(s, st, i1, i2, j, i3) ==
    normalize_number(
        DigitsValue(DigitsValue(0, s, st, i1), s, i1 + 1, i2),
        (IF At(s, j - 1) = Ch.minus THEN 0 - DigitsValue(0, s, j, i3)
         ELSE DigitsValue(0, s, j, i3))
        - (IF i2 > i1 THEN i2 - (i1 + 1) ELSE 0))

NumberEnd(s, st, i1, i2, j, i3) ==
    IF i1 > st /\ (j > i2 => i3 > j) /\ i3 = Len(s) + 1
    THEN IF st = 2 /\ s[1] = Ch.minus
         THEN negate_number(NumberValue(s, st, i1, i2, j, i3))
         ELSE NumberValue(s, st, i1, i2, j, i3)
    ELSE number_t(FALSE, 0, 0)

NumberExponent(s, st, i1, i2) ==
    IF At(s, i2) = Ch.e \/ At(s, i2) = Ch.E
    THEN IF At(s, i2 + 1) = Ch.plus \/ At(s, i2 + 1) = Ch.minus
         THEN NumberEnd(s, st, i1, i2, i2 + 2, ScanDigits(s, i2 + 2))
         ELSE NumberEnd(s, st, i1, i2, i2 + 1, ScanDigits(s, i2 + 1))
    ELSE NumberEnd(s, st, i1, i2, i2, i2)

NumberFraction(s, st, i1, i2) ==
    IF i2 > i1 + 1 THEN NumberExponent(s, st, i1, i2) ELSE number_t(FALSE, 0, 0)

NumberInteger(s, st, i1) ==
    IF At(s, i1) = Ch.dot THEN NumberFraction(s, st, i1, ScanDigits(s, i1 + 1))
    ELSE NumberExponent(s, st, i1, i1)

parse_number(str, lib) ==
    IF lib = "signed" /\ (At(str, 1) = Ch.plus \/ At(str, 1) = Ch.minus)
    THEN NumberInteger(str, 2, ScanDigits(str, 2))
    ELSE NumberInteger(str, 1, ScanDigits(str, 1))

\* ------------------------------------------------------------------------
\* parse_number_element

RECURSIVE number_digits(_)

\* do { b = append_char(b, (char)c); c = next_char(src); } while(is_digit(c));
number_digits(p) ==
    LET q == NextChar(AppendNarrow(
                 [p EXCEPT !.src.loops = Append(@, [loop |-> "parse_number_element",
                                                    index |-> p.src.index])], p.c))
    IN  IF is_digit(q.c) THEN number_digits(q)
        ELSE [q EXCEPT !.src.loops = Append(@, [loop |-> "parse_number_element",
                                                index |-> q.src.index])]

\* the code after the label error with the whole buffer copied
number_error_text_without_limit(p) ==
    Return(FreeBuilder(SetError(p, "json_incorrect_number_format", p.h.cells[p.b].chars)),
           NULL)

\* the code after the label error, from err->type = ... on
number_error_text(p) ==
    Return(FreeBuilder(SetError(p, "json_incorrect_number_format",
                SubSeq(p.h.cells[p.b].chars, 1,
                       IF Len(p.h.cells[p.b].chars) < json_error_text_max_length
                       THEN Len(p.h.cells[p.b].chars) ELSE json_error_text_max_length))),
           NULL)

\* the code after the label error
number_error(p) ==
    IF p.err.present THEN number_error_text(AppendNarrow(p, p.c))
    ELSE Return(FreeBuilder(p), NULL)

\* if (!result.is_number) goto error; free(b); if (neg) ...; return instantiate...
number_result(p, neg, result) ==
    IF ~result.is_number THEN number_error(p)
    ELSE ReturnNew(p, instantiate_json_number(free(p.h, p.b),
                          IF neg THEN negate_number(result) ELSE result))

\* number_t result; parse_number(&result, b->data);
number_convert(p, neg) ==
    number_result(p, neg, parse_number(CStr(p.h.cells[p.b].chars), p.lib))

\* if (is_digit(c)) { do ... while } else goto error, in the exponent
number_exponent_digits(p, neg) ==
    IF is_digit(p.c) THEN number_convert(number_digits(p), neg) ELSE number_error(p)

\* if (c == '+' || c == '-') { ... }
number_exponent_sign(p, neg) ==
    IF p.c = Ch.plus \/ p.c = Ch.minus
    THEN number_exponent_digits(NextChar(AppendNarrow(p, p.c)), neg)
    ELSE number_exponent_digits(p, neg)

\* if (c == L'e' || c == L'E') { ... }
number_exponent(p, neg) ==
    IF p.c = Ch.e \/ p.c = Ch.E
    THEN number_exponent_sign(NextChar(AppendNarrow(p, p.c)), neg)
    ELSE number_convert(p, neg)

\* if (is_digit(c)) { do ... while } else goto error, in the fraction
number_fraction(p, neg) ==
    IF is_digit(p.c) THEN number_exponent(number_digits(p), neg) ELSE number_error(p)

\* if (c == '.') { ... }
number_point(p, neg) ==
    IF p.c = Ch.dot THEN number_fraction(NextChar(AppendNarrow(p, p.c)), neg)
    ELSE number_exponent(p, neg)

parse_number_element(p, neg) == number_point(number_digits(GetChar(NoBuilder(p))), neg)

\* ------------------------------------------------------------------------
\* parse_object, parse_array, parse_element

RECURSIVE parse_element(_)
RECURSIVE parse_object_loop(_, _, _)
RECURSIVE parse_array_loop(_, _, _)
RECURSIVE identifier_loop(_)
RECURSIVE word_loop(_)

\* json_object_destructor(obj); return NULL;
ObjectFail(p, obj) == Return([p EXCEPT !.h = json_object_destructor(p.h, obj)], NULL)

\* json_array_destructor(elem); return NULL;
ArrayFail(p, elem) == Return([p EXCEPT !.h = json_array_destructor(p.h, elem)], NULL)

RECURSIVE identifier_loop_without_digits(_)
\* the loop with is_digit(c) left out of its condition
identifier_loop_without_digits(p) ==
    LET q == NextChar(AppendWide(p, p.c))
    IN  IF is_letter(q.c) THEN identifier_loop_without_digits(q) ELSE q

\* do { b = append_wide_char(b, c); c = next_char(src); }
\* while(is_letter(c) || is_digit(c));
identifier_loop(p) ==
    LET q == NextChar(AppendWide(p, p.c))
    IN  IF is_letter(q.c) \/ is_digit(q.c) THEN identifier_loop(q) ELSE q

\* the insertion with value->parent = obj left out
parse_object_add_without_parent(p, obj, count, name) ==
    IF p.ret = NULL THEN Return(p, NULL)
    ELSE parse_object_loop(
             [p EXCEPT !.h = add_pair_to_tree_map(p.h, p.h.cells[obj].ptr, name, p.ret).h],
             obj, count + 1)

\* if (!value) return NULL; add_pair_to_tree_map(...); value->parent = obj; count++;
parse_object_add(p, obj, count, name) ==
    IF p.ret = NULL THEN Return(p, NULL)
    ELSE parse_object_loop(
             [p EXCEPT !.h = [add_pair_to_tree_map(p.h, p.h.cells[obj].ptr, name, p.ret).h
                                 EXCEPT !.cells[p.ret].parent = obj]],
             obj, count + 1)

\* after c = next_char_but_not_space(src) behind the colon
parse_object_value(p, obj, count, name) ==
    IF p.c = Ch.nul THEN ObjectFail(SetErrorType(p, "json_expected_element"), obj)
    ELSE parse_object_add(parse_element(p), obj, count, name)

\* after c = get_char_but_not_space(src) behind the name
parse_object_colon(p, obj, count, name) ==
    IF p.c # Ch.colon THEN ObjectFail(SetErrorType(p, "json_expected_colon_separator"), obj)
    ELSE parse_object_value(NextCharButNotSpace(p), obj, count, name)

\* name = parse_string(src, err); if (!name) return NULL;
parse_object_quoted(p, obj, count) ==
    IF p.ret = NULL THEN Return(p, NULL)
    ELSE parse_object_colon(GetCharButNotSpace(p), obj, count, p.ret)

\* wide_string_t *name = NULL; if (c == L'\"') ... else if (is_letter(c)) ... else ...
parse_object_name(p, obj, count) ==
    IF p.c = Ch.quote THEN parse_object_quoted(parse_string(Advance(p)), obj, count)
    ELSE IF is_letter(p.c)
    THEN LET q == identifier_loop(NoBuilder(p))
         IN  parse_object_colon(GetCharButNotSpace(q), obj, count, q.b)
    ELSE ObjectFail(SetErrorType(p, "json_expected_name"), obj)

\* inside if (count > 0), after c = next_char_but_not_space(src)
parse_object_after_comma(p, obj, count) ==
    IF p.c = Ch.nul
    THEN ObjectFail(SetError(p, "json_missing_closing_bracket", <<Ch.rbrace>>), obj)
    ELSE IF p.c = Ch.rbrace THEN Return(Advance(p), obj)
    ELSE parse_object_name(p, obj, count)

\* one iteration of while(true), after c = get_char_but_not_space(src)
parse_object_member(p, obj, count) ==
    IF p.c = Ch.nul
    THEN ObjectFail(SetError(p, "json_missing_closing_bracket", <<Ch.rbrace>>), obj)
    ELSE IF p.c = Ch.rbrace THEN Return(Advance(p), obj)
    ELSE IF count > 0
    THEN IF p.c # Ch.comma
         THEN ObjectFail(SetErrorType(p, "json_expected_comma_separator"), obj)
         ELSE parse_object_after_comma(NextCharButNotSpace(p), obj, count)
    ELSE parse_object_name(p, obj, count)

parse_object_loop(p, obj, count) ==
    parse_object_member(
        GetCharButNotSpace([p EXCEPT !.src.loops = Append(@, [loop |-> "parse_object",
                                                              index |-> p.src.index])]),
        obj, count)

\* element_t *obj = instantiate_json_object(); size_t count = 0; while(true) ...
parse_object(p) ==
    LET r == instantiate_json_object(p.h)
    IN  parse_object_loop([p EXCEPT !.h = r.h], r.ret, 0)

\* the insertion with a report of its own when the child failed
parse_array_add_with_report(p, elem, count) ==
    IF p.ret = NULL THEN ArrayFail(SetErrorType(p, "json_expected_element"), elem)
    ELSE parse_array_loop(
             [p EXCEPT !.h = [add_item_to_vector(p.h, p.h.cells[elem].ptr, p.ret)
                                 EXCEPT !.cells[p.ret].parent = elem]],
             elem, count + 1)

\* if (!child) return NULL; add_item_to_vector(...); child->parent = elem; count++;
parse_array_add(p, elem, count) ==
    IF p.ret = NULL THEN Return(p, NULL)
    ELSE parse_array_loop(
             [p EXCEPT !.h = [add_item_to_vector(p.h, p.h.cells[elem].ptr, p.ret)
                                 EXCEPT !.cells[p.ret].parent = elem]],
             elem, count + 1)

\* inside if (count > 0), after c = next_char_but_not_space(src)
parse_array_after_comma(p, elem, count) ==
    IF p.c = Ch.nul
    THEN ArrayFail(SetError(p, "json_missing_closing_bracket", <<Ch.rbracket>>), elem)
    ELSE IF p.c = Ch.rbracket THEN Return(Advance(p), elem)
    ELSE parse_array_add(parse_element(p), elem, count)

\* one iteration of while(true), after c = get_char_but_not_space(src)
parse_array_item(p, elem, count) ==
    IF p.c = Ch.nul
    THEN ArrayFail(SetError(p, "json_missing_closing_bracket", <<Ch.rbrace>>), elem)
    ELSE IF p.c = Ch.rbracket THEN Return(Advance(p), elem)
    ELSE IF count > 0
    THEN IF p.c # Ch.comma
         THEN ArrayFail(SetErrorType(p, "json_expected_comma_separator"), elem)
         ELSE parse_array_after_comma(NextCharButNotSpace(p), elem, count)
    ELSE parse_array_add(parse_element(p), elem, count)

parse_array_loop(p, elem, count) ==
    parse_array_item(
        GetCharButNotSpace([p EXCEPT !.src.loops = Append(@, [loop |-> "parse_array",
                                                              index |-> p.src.index])]),
        elem, count)

\* element_t *elem = instantiate_json_array(); size_t count = 0; while(true) ...
parse_array(p) ==
    LET r == instantiate_json_array(p.h)
    IN  parse_array_loop([p EXCEPT !.h = r.h], r.ret, 0)

\* do { b = append_wide_char(b, c); c = next_char(src); } while (is_letter(c));
word_loop(p) ==
    LET q == NextChar(AppendWide(p, p.c))
    IN  IF is_letter(q.c) THEN word_loop(q) ELSE q

\* wide_string_t *ws = (wide_string_t*)b; and the comparisons that follow
parse_word_match(p, ws) ==
    IF are_wide_strings_equal(ws, W_null) THEN ReturnNew(p, instantiate_json_null(p.h))
    ELSE IF are_wide_strings_equal(ws, W_true)
    THEN ReturnNew(p, instantiate_json_boolean(p.h, TRUE))
    ELSE IF are_wide_strings_equal(ws, W_false)
    THEN ReturnNew(p, instantiate_json_boolean(p.h, FALSE))
    ELSE Return(SetError(p, "json_unrecognized_entity",
                    SubSeq(ws, 1, IF Len(ws) < json_error_text_max_length
                                  THEN Len(ws) ELSE json_error_text_max_length)), NULL)

\* wide_string_builder_t *b = create_wide_string_builder(8); do ... while
parse_word_builder(p) ==
    LET r == create_wide_string_builder(p.h)
    IN  word_loop([p EXCEPT !.h = r.h, !.b = r.ret])

\* the branch else if (is_letter(c)) of parse_element
parse_word(p) ==
    LET q == parse_word_builder(p)
    IN  parse_word_match(q, q.h.cells[q.b].chars)

\* wide_string_t *text = parse_string(src, err); if (text) { ... } return NULL;
parse_element_string(p) ==
    IF p.ret # NULL
    THEN ReturnNew(p, nnalloc(p.h, [Element("json_string") EXCEPT !.ptr = p.ret]))
    ELSE Return(p, NULL)

\* after c = get_char_but_not_space(src)
parse_element_switch(p) ==
    IF p.c = Ch.lbrace THEN parse_object(Advance(p))
    ELSE IF p.c = Ch.lbracket THEN parse_array(Advance(p))
    ELSE IF p.c = Ch.quote THEN parse_element_string(parse_string(Advance(p)))
    ELSE IF is_letter(p.c) THEN parse_word(p)
    ELSE IF is_digit(p.c) THEN parse_number_element(p, FALSE)
    ELSE IF p.c = Ch.minus THEN parse_number_element(Advance(p), TRUE)
    ELSE Return(SetError(p, "json_unknown_symbol", <<p.c>>), NULL)

parse_element(p) == parse_element_switch(GetCharButNotSpace(p))

\* the return with a check added that the text ends after the element
parse_json_ext_return_at_end(p) ==
    IF p.ret # NULL /\ get_char(p.src) # Ch.nul
    THEN [p EXCEPT !.ret = NULL, !.err.type = "json_unknown_symbol",
                   !.err.where = p.src.pos]
    ELSE [p EXCEPT !.h.cells = IF p.ret # NULL THEN [@ EXCEPT ![p.ret].parent = NULL] ELSE @,
                   !.err.where = IF p.err.present /\ p.err.type # "json_ok"
                                 THEN p.src.pos ELSE @]

\* if (err && err->type != json_ok) err->where = src.pos;
\* if (root) root->parent = NULL; return root;
parse_json_ext_return(p) ==
    [p EXCEPT !.h.cells = IF p.ret # NULL THEN [@ EXCEPT ![p.ret].parent = NULL] ELSE @,
              !.err.where = IF p.err.present /\ p.err.type # "json_ok" THEN p.src.pos ELSE @]

\* t: the text; present: err != NULL; h: the heap; lib: the numeric utility
parse_json_ext(t, present, h, lib) ==
    parse_json_ext_return(parse_element(
        [src |-> init_source(t), err |-> ZeroError(present), h |-> h, lib |-> lib,
         c |-> Ch.nul, b |-> NULL, ret |-> NULL]))

parse_json(t, h, lib) == parse_json_ext(t, FALSE, h, lib)

\* ------------------------------------------------------------------------
\* The caller: inputs

Seqs(A, n) == UNION {[1..k -> A] : k \in 0..n}

\* values and keys the caller passes to the constructors
Strs == {<<>>, <<120>>}
Keys == {<<97>>, <<98>>, <<97, 98>>}
Reals == {[m |-> 30, e |-> 0], [m |-> 0 - 5, e |-> 0 - 1]}

\* texts the caller passes to the parser
StructTexts ==
    Seqs({Ch.lbracket, Ch.rbracket, Ch.lbrace, Ch.rbrace, Ch.comma, Ch.colon, Ch.quote, Ch.a,
          Ch.zero + 1}, MaxLen)

NumTexts ==
    Seqs({Ch.minus, Ch.plus, Ch.dot, Ch.e, Ch.zero + 1, Ch.zero + 2}, MaxNumLen) \ {<<>>}

\* the items of a string literal: the text of the item, the character it denotes
\* (for a well-formed item) and whether it is well-formed
Item(t, val, ok) == [text |-> t, val |-> val, ok |-> ok]
StringItems ==
    {Item(<<Ch.a>>, Ch.a, TRUE), Item(<<Ch.space>>, Ch.space, TRUE),
     Item(<<Ch.backslash, Ch.quote>>, Ch.quote, TRUE),
     Item(<<Ch.backslash, Ch.backslash>>, Ch.backslash, TRUE),
     Item(<<Ch.backslash, Ch.slash>>, Ch.slash, TRUE),
     Item(<<Ch.backslash, Ch.b>>, Ch.bs, TRUE),
     Item(<<Ch.backslash, Ch.f>>, Ch.ff, TRUE),
     Item(<<Ch.backslash, Ch.n>>, Ch.lf, TRUE),
     Item(<<Ch.backslash, Ch.r>>, Ch.cr, TRUE),
     Item(<<Ch.backslash, Ch.t>>, Ch.tab, TRUE),
     Item(<<Ch.backslash, Ch.u, Ch.zero, Ch.zero, Ch.zero + 4, Ch.zero + 1>>, Ch.A, TRUE),
     Item(<<Ch.backslash, Ch.u, Ch.zero, Ch.zero, Ch.E, Ch.zero + 9>>, 233, TRUE),
     Item(<<Ch.backslash, Ch.u, Ch.zero + 2, Ch.zero, Ch.a, Ch.zero>>, 8352, TRUE),
     Item(<<Ch.backslash, Ch.a>>, Ch.nul, FALSE),
     Item(<<Ch.backslash, Ch.u, Ch.zero, Ch.z>>, Ch.nul, FALSE),
     Item(<<Ch.backslash>>, Ch.nul, FALSE),
     Item(<<Ch.backslash, Ch.u>>, Ch.nul, FALSE),
     Item(<<Ch.backslash, Ch.u, Ch.zero + 1, Ch.zero + 2>>, Ch.nul, FALSE),
     Item(<<Ch.backslash, Ch.u, Ch.zero, Ch.zero, Ch.zero>>, Ch.nul, FALSE)}

RECURSIVE Flatten(_)
Flatten(its) == IF its = <<>> THEN <<>> ELSE Head(its).text \o Flatten(Tail(its))

\* ------------------------------------------------------------------------
\* The caller: states and calls

InitCommon ==
    /\ heap = EmptyHeap
    /\ root = NULL
    /\ calls = <<>>
    /\ wstr = NULL
    /\ doc = NULL
    /\ err = ZeroError(TRUE)
    /\ src = init_source(<<>>)
    /\ mark = 0
    /\ pc = [root |-> "none", parse |-> "none"]
    /\ last = [op |-> "none", arg |-> NULL]

\* a caller that builds a document with the constructors
Init ==
    /\ InitCommon
    /\ text = <<>>
    /\ items = <<>>
    /\ numlib = "unsigned"

\* a caller that holds a text to parse
InitStruct ==
    /\ InitCommon
    /\ text \in StructTexts
    /\ items = <<>>
    /\ numlib = "unsigned"

InitNumber ==
    /\ InitCommon
    /\ text \in NumTexts
    /\ items = <<>>
    /\ numlib \in {"unsigned", "signed"}

\* a caller that holds a string literal, closed or not
InitString ==
    /\ InitCommon
    /\ items \in Seqs(StringItems, MaxItems)
    /\ \E closed \in BOOLEAN :
          text = <<Ch.quote>> \o Flatten(items) \o (IF closed THEN <<Ch.quote>> ELSE <<>>)
    /\ numlib = "unsigned"

CanBuild == pc.parse = "none" /\ wstr = NULL /\ Len(calls) < MaxCalls

\* the first call makes the root
Standalone(r, op) ==
    /\ CanBuild
    /\ pc.root = "none"
    /\ heap' = r.h
    /\ root' = r.ret
    /\ pc' = [pc EXCEPT !.root = "live"]
    /\ calls' = Append(calls, [op |-> op, this |-> NULL, key |-> <<>>, key_copy |-> NULL,
                               ret |-> r.ret])
    /\ last' = [op |-> op, arg |-> NULL]
    /\ UNCHANGED <<wstr, text, items, numlib, doc, err, src, mark>>

\* a later call creates a node inside the root container
Attached(r, op, key, key_copy) ==
    /\ heap' = r.h
    /\ calls' = Append(calls, [op |-> op, this |-> root, key |-> key, key_copy |-> key_copy,
                               ret |-> r.ret])
    /\ last' = [op |-> op, arg |-> root]
    /\ UNCHANGED <<root, wstr, text, items, numlib, doc, err, src, mark, pc>>

RootIs(type) ==
    CanBuild /\ pc.root = "live" /\ heap.cells[root].type = type

Call_create_json_null == Standalone(create_json_null(heap), "create_json_null")

Call_create_json_object == Standalone(create_json_object(heap), "create_json_object")

Call_create_json_array == Standalone(create_json_array(heap), "create_json_array")

Call_create_json_string ==
    \E v \in Strs : Standalone(create_json_string(heap, v), "create_json_string")

Call_create_json_number ==
    \E v \in Reals : Standalone(create_json_number(heap, v), "create_json_number")

Call_create_json_boolean ==
    \E v \in BOOLEAN : Standalone(create_json_boolean(heap, v), "create_json_boolean")

Call_create_json_null_at_end_of_array ==
    /\ RootIs("json_array")
    /\ Attached(create_json_null_at_end_of_array(heap, root),
                "create_json_null_at_end_of_array", <<>>, NULL)

Call_create_json_string_at_end_of_array ==
    /\ RootIs("json_array")
    /\ \E v \in Strs :
          Attached(create_json_string_at_end_of_array(heap, root, v),
                   "create_json_string_at_end_of_array", <<>>, NULL)

Call_create_json_number_at_end_of_array ==
    /\ RootIs("json_array")
    /\ \E v \in Reals :
          Attached(create_json_number_at_end_of_array(heap, root, v),
                   "create_json_number_at_end_of_array", <<>>, NULL)

Call_create_json_boolean_at_end_of_array ==
    /\ RootIs("json_array")
    /\ \E v \in BOOLEAN :
          Attached(create_json_boolean_at_end_of_array(heap, root, v),
                   "create_json_boolean_at_end_of_array", <<>>, NULL)

\* key_copy is the first allocation the call makes
Call_create_json_string_owned_by_object ==
    /\ RootIs("json_object")
    /\ \E k \in Keys, v \in Strs :
          Attached(create_json_string_owned_by_object(heap, root, k, v),
                   "create_json_string_owned_by_object", k, Len(heap.cells) + 1)

\* wstr = json_element_to_simple_string(root)
Call_json_element_to_simple_string ==
    /\ pc.root = "live"
    /\ pc.parse = "none"
    /\ wstr = NULL
    /\ LET r == json_element_to_simple_string(heap, root)
       IN  heap' = r.h /\ wstr' = r.ret
    /\ last' = [op |-> "json_element_to_simple_string", arg |-> root]
    /\ UNCHANGED <<root, calls, text, items, numlib, doc, err, src, mark, pc>>

\* free(wstr)
Call_free ==
    /\ wstr # NULL
    /\ heap.frees[wstr] = 0
    /\ heap' = free(heap, wstr)
    /\ last' = [op |-> "free", arg |-> wstr]
    /\ UNCHANGED <<root, calls, wstr, text, items, numlib, doc, err, src, mark, pc>>

\* destroy_json_element(root); root may be an absent handle
Call_destroy_json_element_root ==
    /\ pc.root # "destroyed"
    /\ heap' = destroy_json_element(heap, root)
    /\ pc' = IF root # NULL THEN [pc EXCEPT !.root = "destroyed"] ELSE pc
    /\ last' = [op |-> "destroy_json_element", arg |-> root]
    /\ UNCHANGED <<root, calls, wstr, text, items, numlib, doc, err, src, mark>>

Parsed(r) ==
    /\ heap' = r.h
    /\ doc' = r.ret
    /\ err' = r.err
    /\ src' = r.src
    /\ mark' = Len(heap.cells)
    /\ pc' = [pc EXCEPT !.parse = "returned"]

\* doc = parse_json_ext(wstr, &err)
Call_parse_json_ext_wstr ==
    /\ pc.parse = "none"
    /\ wstr # NULL
    /\ heap.frees[wstr] = 0
    /\ text' = heap.cells[wstr].chars
    /\ Parsed(parse_json_ext(heap.cells[wstr].chars, TRUE, heap, numlib))
    /\ last' = [op |-> "parse_json_ext", arg |-> wstr]
    /\ UNCHANGED <<root, calls, wstr, items, numlib>>

\* doc = parse_json(wstr)
Call_parse_json_wstr ==
    /\ pc.parse = "none"
    /\ wstr # NULL
    /\ heap.frees[wstr] = 0
    /\ text' = heap.cells[wstr].chars
    /\ Parsed(parse_json(heap.cells[wstr].chars, heap, numlib))
    /\ last' = [op |-> "parse_json", arg |-> wstr]
    /\ UNCHANGED <<root, calls, wstr, items, numlib>>

\* doc = parse_json_ext(&text, &err)
Call_parse_json_ext ==
    /\ pc.parse = "none"
    /\ Parsed(parse_json_ext(text, TRUE, heap, numlib))
    /\ last' = [op |-> "parse_json_ext", arg |-> NULL]
    /\ UNCHANGED <<root, calls, wstr, text, items, numlib>>

\* destroy_json_element(doc); doc is absent when the parse failed
Call_destroy_json_element_doc ==
    /\ pc.parse = "returned"
    /\ heap' = destroy_json_element(heap, doc)
    /\ pc' = [pc EXCEPT !.parse = "destroyed"]
    /\ last' = [op |-> "destroy_json_element", arg |-> doc]
    /\ UNCHANGED <<root, calls, wstr, text, items, numlib, doc, err, src, mark>>

Next ==
    \/ Call_create_json_null
    \/ Call_create_json_object
    \/ Call_create_json_array
    \/ Call_create_json_string
    \/ Call_create_json_number
    \/ Call_create_json_boolean
    \/ Call_create_json_null_at_end_of_array
    \/ Call_create_json_string_at_end_of_array
    \/ Call_create_json_number_at_end_of_array
    \/ Call_create_json_boolean_at_end_of_array
    \/ Call_create_json_string_owned_by_object
    \/ Call_json_element_to_simple_string
    \/ Call_free
    \/ Call_destroy_json_element_root
    \/ Call_parse_json_ext_wstr
    \/ Call_parse_json_wstr
    \/ Call_destroy_json_element_doc

NextParse ==
    \/ Call_parse_json_ext
    \/ Call_destroy_json_element_doc

\* the constructor API, the serializer and the parser on the serializer's output
Spec == Init /\ [][Next]_vars

\* the parser on texts of brackets, separators, quotes, a letter and a digit
SpecStruct == InitStruct /\ [][NextParse]_vars

\* the parser on texts of signs, dots, exponent markers and digits
SpecNumber == InitNumber /\ [][NextParse]_vars

\* the parser on string literals written from items
SpecString == InitString /\ [][NextParse]_vars

RECURSIVE MembersText(_)
\* the members ms written as key: value and joined by ", "; a key is written
\* between quotes or bare
MembersText(ms) ==
    IF ms = <<>> THEN <<>>
    ELSE (IF Head(ms).quoted THEN <<Ch.quote>> \o Head(ms).key \o <<Ch.quote>>
          ELSE Head(ms).key)
         \o <<Ch.colon, Ch.space, Head(ms).value>>
         \o (IF Len(ms) > 1 THEN <<Ch.comma, Ch.space>> ELSE <<>>)
         \o MembersText(Tail(ms))

\* the parser on objects whose members have the keys a, b, _a, b1, 1 and -,
\* quoted or bare, and the values 1 and 2
SpecKeys ==
    /\ heap = EmptyHeap
    /\ root = NULL
    /\ calls = <<>>
    /\ wstr = NULL
    /\ doc = NULL
    /\ err = ZeroError(TRUE)
    /\ src = init_source(<<>>)
    /\ mark = 0
    /\ pc = [root |-> "none", parse |-> "none"]
    /\ last = [op |-> "none", arg |-> NULL]
    /\ items \in Seqs([key : {<<Ch.a>>, <<Ch.b>>, <<Ch.underscore, Ch.a>>,
                             <<Ch.b, Ch.zero + 1>>, <<Ch.zero + 1>>, <<Ch.minus>>},
                      quoted : BOOLEAN,
                      value : {Ch.zero + 1, Ch.zero + 2}], MaxMembers)
    /\ text = <<Ch.lbrace>> \o MembersText(items) \o <<Ch.rbrace>>
    /\ numlib = "unsigned"
    /\ [][NextParse]_vars

\* the parser on one element at the top level, in an array or as the value of
\* a member, followed by nothing or by some further text; items holds the
\* text before the element, the element and the text after it.  The elements
\* are the words of the letters n, u, l and the underscore, the three
\* literals, runs of letters and runs of digits with two points that are about
\* as long as the error text may be, and a few complete elements
SpecToken ==
    /\ heap = EmptyHeap
    /\ root = NULL
    /\ calls = <<>>
    /\ wstr = NULL
    /\ doc = NULL
    /\ err = ZeroError(TRUE)
    /\ src = init_source(<<>>)
    /\ mark = 0
    /\ pc = [root |-> "none", parse |-> "none"]
    /\ last = [op |-> "none", arg |-> NULL]
    /\ items \in {<<>>, <<Ch.lbracket>>, <<Ch.lbrace, Ch.a, Ch.colon>>}
                 \X ((Seqs({Ch.n, Ch.u, 108, Ch.underscore}, MaxWord) \ {<<>>})
                      \cup {W_null, W_true, W_false}
                      \cup {[i \in 1..n |-> Ch.a + (i % 26)] : n \in (MaxRun - 2)..MaxRun}
                      \cup {[i \in 1..n |-> IF i < n - 1 THEN Ch.zero + (i % 10) ELSE Ch.dot] :
                               n \in (MaxRun - 2)..MaxRun}
                      \cup {<<Ch.lbracket, Ch.rbracket>>, <<Ch.lbrace, Ch.rbrace>>,
                            <<Ch.quote, Ch.a, Ch.quote>>, <<Ch.zero + 1>>,
                            <<Ch.zero + 1, Ch.dot, Ch.zero + 2>>,
                            <<Ch.lbracket, Ch.zero + 1, Ch.rbracket>>})
                 \X ({<<>>, <<Ch.space, Ch.a>>}
                      \cup {<<c>> : c \in {Ch.rbracket, Ch.rbrace, Ch.comma, Ch.space, Ch.quote,
                                            Ch.dot, Ch.zero + 1, Ch.a}})
    /\ text = items[1] \o items[2] \o items[3]
    /\ numlib = "unsigned"
    /\ [][NextParse]_vars

\* the parser on the start of a container, a run of whitespace and one more
\* character or none; items holds the three parts.  The start ends behind a
\* member or element ("member"), behind a key ("key"), behind the opening
\* bracket ("open"), behind a comma ("comma") or behind the colon of a
\* member ("colon"); close is the bracket that
\* closes the innermost container still open
SpecSeparator ==
    /\ heap = EmptyHeap
    /\ root = NULL
    /\ calls = <<>>
    /\ wstr = NULL
    /\ doc = NULL
    /\ err = ZeroError(TRUE)
    /\ src = init_source(<<>>)
    /\ mark = 0
    /\ pc = [root |-> "none", parse |-> "none"]
    /\ last = [op |-> "none", arg |-> NULL]
    /\ items \in
          {[at |-> "member", close |-> Ch.rbracket, text |-> t] :
              t \in {<<Ch.lbracket, Ch.zero + 1>>,
                     <<Ch.lbracket, Ch.zero + 1, Ch.comma, Ch.zero + 2>>,
                     <<Ch.lbracket, Ch.quote, Ch.a, Ch.quote>>,
                     <<Ch.lbracket, Ch.quote, Ch.quote>>,
                     <<Ch.lbracket, Ch.lbracket, Ch.zero + 1, Ch.rbracket>>,
                     <<Ch.lbracket, Ch.lbrace, Ch.rbrace>>,
                     <<Ch.lbracket>> \o W_null}}
          \cup {[at |-> "member", close |-> Ch.rbrace, text |-> t] :
              t \in {<<Ch.lbrace, Ch.a, Ch.colon, Ch.zero + 1>>,
                     <<Ch.lbrace, Ch.quote, Ch.a, Ch.quote, Ch.colon, Ch.zero + 1>>,
                     <<Ch.lbrace, Ch.a, Ch.colon, Ch.zero + 1, Ch.comma, Ch.b, Ch.colon,
                       Ch.lbracket, Ch.rbracket>>,
                     <<Ch.lbracket, Ch.lbrace, Ch.a, Ch.colon>> \o W_true}}
          \cup {[at |-> "key", close |-> Ch.rbrace, text |-> t] :
              t \in {<<Ch.lbrace, Ch.a>>,
                     <<Ch.lbrace, Ch.quote, Ch.a, Ch.quote>>,
                     <<Ch.lbrace, Ch.quote, Ch.quote>>,
                     <<Ch.lbrace, Ch.underscore, Ch.zero + 1>>,
                     <<Ch.lbrace, Ch.a, Ch.colon, Ch.zero + 1, Ch.comma, Ch.b>>}}
          \cup {[at |-> "open", close |-> Ch.rbracket, text |-> t] :
              t \in {<<Ch.lbracket>>, <<Ch.lbracket, Ch.lbracket>>,
                     <<Ch.lbrace, Ch.a, Ch.colon, Ch.lbracket>>}}
          \cup {[at |-> "open", close |-> Ch.rbrace, text |-> t] :
              t \in {<<Ch.lbrace>>, <<Ch.lbracket, Ch.lbrace>>}}
          \cup {[at |-> "comma", close |-> Ch.rbracket,
                 text |-> <<Ch.lbracket, Ch.zero + 1, Ch.comma>>],
                [at |-> "comma", close |-> Ch.rbrace,
                 text |-> <<Ch.lbrace, Ch.a, Ch.colon, Ch.zero + 1, Ch.comma>>]}
          \cup {[at |-> "colon", close |-> Ch.rbrace, text |-> t] :
              t \in {<<Ch.lbrace, Ch.a, Ch.colon>>,
                     <<Ch.lbrace, Ch.quote, Ch.a, Ch.quote, Ch.colon>>,
                     <<Ch.lbrace, Ch.a, Ch.colon, Ch.zero + 1, Ch.comma, Ch.b, Ch.colon>>}}
    /\ \E ws \in Seqs({Ch.space, Ch.tab, Ch.lf, Ch.cr}, MaxWs) :
       \E c \in {<<>>} \cup {<<x>> : x \in {Ch.rbracket, Ch.rbrace, Ch.comma, Ch.colon,
                                              Ch.zero + 1, Ch.a, Ch.quote, Ch.lbracket,
                                              Ch.lbrace, Ch.dot}} :
          text = items.text \o ws \o c
    /\ numlib = "unsigned"
    /\ [][NextParse]_vars

\* the parser on a text written as tokens with one run of whitespace put in
\* front of some of them; items holds, for every token, the token and its
\* text with the run in front of it or not.  The run stands in front of the first
\* token, behind an opening bracket, a comma or a colon, or in front of a
\* comma, a colon or a closing bracket
SpecLayout ==
    /\ heap = EmptyHeap
    /\ root = NULL
    /\ calls = <<>>
    /\ wstr = NULL
    /\ doc = NULL
    /\ err = ZeroError(TRUE)
    /\ src = init_source(<<>>)
    /\ mark = 0
    /\ pc = [root |-> "none", parse |-> "none"]
    /\ last = [op |-> "none", arg |-> NULL]
    /\ \E toks \in
          {<<<<Ch.lbracket>>, <<Ch.zero + 1>>, <<Ch.comma>>, <<Ch.zero + 2>>, <<Ch.rbracket>>>>,
           <<<<Ch.lbrace>>, <<Ch.a>>, <<Ch.colon>>, <<Ch.zero + 1>>, <<Ch.comma>>, <<Ch.quote, Ch.b, Ch.quote>>, <<Ch.colon>>, <<Ch.lbracket>>, <<Ch.rbracket>>, <<Ch.rbrace>>>>,
           <<<<Ch.lbracket>>, <<Ch.lbracket>>, W_null, <<Ch.rbracket>>, <<Ch.comma>>, <<Ch.lbrace>>, <<Ch.rbrace>>, <<Ch.rbracket>>>>,
           <<<<Ch.lbrace>>, <<Ch.quote, Ch.b, Ch.quote>>, <<Ch.colon>>, <<Ch.quote, Ch.a, Ch.space, Ch.a, Ch.quote>>, <<Ch.rbrace>>>>,
           <<<<Ch.lbracket>>, <<Ch.zero + 1, Ch.dot>>, <<Ch.comma>>, <<Ch.zero + 2>>, <<Ch.rbracket>>>>,
           <<<<Ch.lbracket>>, <<Ch.zero + 1>>, <<Ch.comma>>, <<Ch.rbracket>>>>,
           <<<<Ch.lbrace>>, <<Ch.a>>, <<Ch.colon>>, <<Ch.rbrace>>>>,
           <<<<Ch.lbrace>>, <<Ch.a>>, <<Ch.zero + 1>>, <<Ch.rbrace>>>>,
           <<<<Ch.lbracket>>, <<Ch.zero + 1>>, <<Ch.zero + 2>>, <<Ch.rbracket>>>>,
           <<<<Ch.lbracket>>, <<Ch.n, Ch.u, 108>>, <<Ch.rbracket>>>>,
           <<<<Ch.lbrace>>, <<Ch.comma>>, <<Ch.rbrace>>>>,
           <<<<Ch.lbracket>>, <<Ch.zero + 1>>, <<Ch.comma>>>>,
           <<<<Ch.lbrace>>, <<Ch.a>>, <<Ch.colon>>, <<Ch.zero + 1>>>>,
           <<<<Ch.lbrace>>, <<Ch.a>>, <<Ch.colon>>>>,
           <<<<Ch.zero + 1>>>>,
           <<<<Ch.lbracket>>, <<Ch.minus>>, <<Ch.rbracket>>>>,
           <<<<Ch.lbrace>>, <<Ch.zero + 1>>, <<Ch.colon>>, <<Ch.zero + 2>>, <<Ch.rbrace>>>>,
           <<<<Ch.lbracket>>, <<Ch.quote, Ch.quote>>, <<Ch.rbracket>>>>,
           <<<<Ch.lbracket>>, <<Ch.comma>>>>,
           <<<<Ch.lbracket>>, <<Ch.quote, Ch.a>>, <<Ch.comma>>, <<Ch.zero + 1>>>>,
           <<<<Ch.lbrace>>, <<Ch.a>>, <<Ch.colon>>, <<Ch.plus>>, <<Ch.rbrace>>>>,
           <<<<Ch.lbrace>>, <<Ch.quote, Ch.b, Ch.quote>>, <<Ch.comma>>, <<Ch.zero + 1>>>>} :
       \E ws \in Seqs({Ch.space, Ch.tab, Ch.lf, Ch.cr}, MaxWs) \ {<<>>} :
       \E gaps \in SUBSET {i \in DOMAIN toks :
                              \/ i = 1
                              \/ toks[i - 1] \in {<<Ch.lbracket>>, <<Ch.lbrace>>,
                                                  <<Ch.comma>>, <<Ch.colon>>}
                              \/ toks[i] \in {<<Ch.rbracket>>, <<Ch.rbrace>>,
                                              <<Ch.comma>>, <<Ch.colon>>}} :
          items = [i \in DOMAIN toks |->
                      [text |-> (IF i \in gaps THEN ws ELSE <<>>) \o toks[i], tok |-> toks[i]]]
    /\ text = Flatten(items)
    /\ numlib = "unsigned"
    /\ [][NextParse]_vars

\* next_char(&src)
Call_next_char ==
    /\ src' = next_char(src).src
    /\ last' = [op |-> "next_char", arg |-> NULL]
    /\ UNCHANGED <<heap, root, calls, wstr, text, items, numlib, doc, err, mark, pc>>

\* the cursor moved over a text of letters, line feeds and carriage returns
SpecCursor ==
    /\ text \in Seqs({Ch.a, Ch.lf, Ch.cr}, MaxLine)
    /\ src = init_source(text)
    /\ heap = EmptyHeap
    /\ root = NULL
    /\ calls = <<>>
    /\ wstr = NULL
    /\ items = <<>>
    /\ numlib = "unsigned"
    /\ doc = NULL
    /\ err = ZeroError(TRUE)
    /\ mark = 0
    /\ pc = [root |-> "none", parse |-> "none"]
    /\ last = [op |-> "none", arg |-> NULL]
    /\ [][Call_next_char]_vars

\* ------------------------------------------------------------------------
\* Properties

\* the allocations the parse made
ParseAllocs == (mark + 1)..Len(heap.cells)

\* C1: parse_json_ext called with an error record ends in exactly one of two
\* outcomes: a root node and the error kind ok, or no document and one of the
\* ten non-ok error kinds; it never returns no document with the kind ok.
C1_OutcomeDichotomy ==
    pc.parse # "none" /\ last.op # "parse_json" =>
        \/ doc # NULL /\ err.type = "json_ok"
        \/ doc = NULL /\ err.type \in json_error_types \ {"json_ok"}

\* the string literal with an empty body yields no document and the kind ok
C1_EmptyLiteralNoDocumentOk ==
    /\ pc.parse = "returned"
    /\ text = <<Ch.quote, Ch.quote>>
    /\ doc = NULL
    /\ err.type = "json_ok"

\* C2: when a parse that fails inside an object or array returns no document,
\* no allocation made during that parse is still live: the container, the
\* nodes in it and the key of the failing member have all been freed.
C2_NoLeakOnContainerFailure ==
    (/\ pc.parse # "none"
     /\ doc = NULL
     /\ text # <<>>
     /\ text[1] \in {Ch.lbracket, Ch.lbrace}) =>
        \A a \in ParseAllocs : heap.frees[a] = 1

\* an array whose element fails is returned as no document and stays allocated
C2_OuterArrayLeaked ==
    /\ pc.parse = "returned"
    /\ text = <<Ch.lbracket, Ch.lbracket>>
    /\ doc = NULL
    /\ \E a \in ParseAllocs : heap.cells[a].type = "json_array" /\ heap.frees[a] = 0

\* C3: for every document built with the constructors, parsing its
\* serialization succeeds and the parsed document serializes to the same text.
C3_RoundTrip ==
    pc.parse # "none" => doc # NULL /\ simple_string(heap, doc) = text

\* the serialization of a string node with the empty value does not parse
C3_EmptyStringNotParsed ==
    /\ pc.parse = "returned"
    /\ pc.root = "live"
    /\ heap.cells[root].type = "json_string"
    /\ text = <<Ch.quote, Ch.quote>>
    /\ doc = NULL

\* the calls that put a node into the container e, in the order they were made
RefCalls(e) == SelectSeq(calls, LAMBDA c : c.this = e)

RECURSIVE RefJoin(_)
\* the parts joined by ", ": nothing before the first, nothing after the last
RefJoin(parts) ==
    IF parts = <<>> THEN <<>>
    ELSE IF Len(parts) = 1 THEN parts[1]
    ELSE parts[1] \o <<Ch.comma, Ch.space>> \o RefJoin(Tail(parts))

RECURSIVE RefSorted(_)
\* the keys K in key-sort order
RefSorted(K) ==
    IF K = {} THEN <<>>
    ELSE LET k == CHOOSE x \in K : \A y \in K : compare_wide_strings(x, y) <= 0
         IN  <<k>> \o RefSorted(K \ {k})

\* the node the last call with key k put into the object e
RefValue(e, k) ==
    LET cs == RefCalls(e)
        i == CHOOSE j \in DOMAIN cs : cs[j].key = k /\ \A m \in DOMAIN cs : m > j => cs[m].key # k
    IN  cs[i].ret

RECURSIVE RefForm(_)
\* the reference compact form of the node e, by recursion on its kind
RefForm(e) ==
    CASE heap.cells[e].type = "json_null" -> <<110, 117, 108, 108>>
      [] heap.cells[e].type = "json_boolean" ->
            IF heap.cells[e].bool_value THEN <<116, 114, 117, 101>>
            ELSE <<102, 97, 108, 115, 101>>
      [] heap.cells[e].type = "json_string" ->
            <<Ch.quote>> \o heap.cells[heap.cells[e].ptr].chars \o <<Ch.quote>>
      [] heap.cells[e].type = "json_number" -> print_number(heap.cells[e].num_value)
      [] heap.cells[e].type = "json_array" ->
            <<Ch.lbracket>>
            \o RefJoin([i \in DOMAIN RefCalls(e) |-> RefForm(RefCalls(e)[i].ret)])
            \o <<Ch.rbracket>>
      [] heap.cells[e].type = "json_object" ->
            LET ks == RefSorted({RefCalls(e)[i].key : i \in DOMAIN RefCalls(e)})
            IN  <<Ch.lbrace>>
                \o RefJoin([i \in DOMAIN ks |->
                               <<Ch.quote>> \o ks[i] \o <<Ch.quote, Ch.colon, Ch.space>>
                               \o RefForm(RefValue(e, ks[i]))])
                \o <<Ch.rbrace>>

\* C4: the text json_element_to_simple_string returns equals the reference
\* compact form: array elements in insertion order, object members in key-sort
\* order, joined by ", " with no separator before the first or after the last.
C4_SerializerEqualsReference ==
    wstr # NULL /\ pc.root = "live" => heap.cells[wstr].chars = RefForm(root)

\* an object whose members were set in an order that is not the key order has
\* been serialized
C4_ObjectSerialized ==
    /\ wstr # NULL
    /\ pc.root = "live"
    /\ heap.cells[root].type = "json_object"
    /\ Len(calls) >= 3
    /\ compare_wide_strings(calls[2].key, calls[3].key) > 0

\* the calls create_json_string_owned_by_object(root, k, ...) made so far
UpsertCalls(k) ==
    {i \in DOMAIN calls : calls[i].op = "create_json_string_owned_by_object" /\ calls[i].key = k}

\* C5: after two sets of the same key k, the object holds exactly one entry for
\* k, its value is the node the last call returned, every earlier value node has
\* been destroyed exactly once and exactly one copy of the key is allocated.
C5_ObjectUpsert ==
    pc.root = "live" =>
        \A k \in Keys : \A i, j \in UpsertCalls(k) :
            (i < j /\ \A m \in UpsertCalls(k) : m <= j) =>
                LET ps == heap.cells[heap.cells[root].ptr].pairs
                    entries == {n \in DOMAIN ps : heap.cells[ps[n].key].chars = k}
                IN  /\ Cardinality(entries) = 1
                    /\ \A n \in entries : ps[n].value = calls[j].ret
                    /\ heap.frees[calls[j].ret] = 0
                    /\ heap.frees[heap.cells[calls[j].ret].ptr] = 0
                    /\ heap.frees[calls[i].ret] = 1
                    /\ heap.frees[heap.cells[calls[i].ret].ptr] = 1
                    /\ Cardinality({m \in UpsertCalls(k) :
                                       heap.frees[calls[m].key_copy] = 0}) = 1
                    /\ \A m \in UpsertCalls(k) : heap.frees[calls[m].key_copy] <= 1

\* a key has been set, then another key, then the first key again
C5_KeySetTwice ==
    /\ pc.root = "live"
    /\ Len(calls) = 4
    /\ calls[2].op = "create_json_string_owned_by_object"
    /\ calls[2].key = calls[4].key
    /\ calls[3].key # calls[2].key
    /\ heap.cells[heap.cells[calls[2].ret].ptr].chars
          # heap.cells[heap.cells[calls[4].ret].ptr].chars

\* the allocations the constructors made
BuiltAllocs == IF wstr = NULL THEN DOMAIN heap.cells ELSE 1..(wstr - 1)

\* C6: one destroy_json_element(root) leaves every node, key and string payload
\* the constructors allocated freed exactly once, and destroy_json_element on
\* an absent handle changes nothing.
C6_DestroyFreesExactlyOnce ==
    /\ [](pc.root = "destroyed" => \A a \in BuiltAllocs : heap.frees[a] = 1)
    /\ [][last'.op = "destroy_json_element" /\ last'.arg = NULL => heap' = heap]_vars

\* an object with two members has been destroyed
C6_ObjectDestroyed ==
    /\ pc.root = "destroyed"
    /\ heap.cells[root].type = "json_object"
    /\ Len(heap.cells[heap.cells[root].ptr].pairs) >= 2

\* C7: after a successful parse and one destroy_json_element of the returned
\* root, every allocation the parse made has been freed exactly once.
C7_ParseAllocationsBalanced ==
    pc.parse = "destroyed" /\ doc # NULL => \A a \in ParseAllocs : heap.frees[a] = 1

\* the text null has been parsed and destroyed, and a buffer is still allocated
C7_LetterBufferLive ==
    /\ pc.parse = "destroyed"
    /\ doc # NULL
    /\ text = <<110, 117, 108, 108>>
    /\ \E a \in ParseAllocs : heap.cells[a].tag = "wide_string" /\ heap.frees[a] = 0

\* the text is a closed string literal made of well-formed items
ClosedLiteral ==
    /\ text = <<Ch.quote>> \o Flatten(items) \o <<Ch.quote>>
    /\ \A i \in DOMAIN items : items[i].ok

\* C8: a quote, zero or more well-formed items and a quote parse to a String
\* node whose value is the sequence of the characters the items denote.
C8_StringLiteralDecoded ==
    pc.parse # "none" /\ ClosedLiteral =>
        /\ doc # NULL
        /\ heap.cells[doc].type = "json_string"
        /\ heap.cells[doc].ptr # NULL
        /\ heap.cells[heap.cells[doc].ptr].chars = [i \in DOMAIN items |-> items[i].val]

\* the literal with zero items yields no String node
C8_EmptyLiteralNoNode ==
    /\ pc.parse = "returned"
    /\ ClosedLiteral
    /\ items = <<>>
    /\ doc = NULL

\* s[a..b] is one digit or more
NumDigits(s, a, b) == a <= b /\ \A i \in a..b : is_digit(s[i])

\* s from a on is empty or (('e'|'E') ('+'|'-')? digit+)
NumExponentPart(s, a) ==
    \/ a = Len(s) + 1
    \/ /\ a <= Len(s)
       /\ s[a] \in {Ch.e, Ch.E}
       /\ \/ NumDigits(s, a + 1, Len(s))
          \/ a + 1 <= Len(s) /\ s[a + 1] \in {Ch.plus, Ch.minus} /\ NumDigits(s, a + 2, Len(s))

\* s from a on is ('.' digit+)? followed by the exponent part
NumFractionPart(s, a) ==
    \/ NumExponentPart(s, a)
    \/ /\ a <= Len(s)
       /\ s[a] = Ch.dot
       /\ \E k \in (a + 1)..Len(s) : NumDigits(s, a + 1, k) /\ NumExponentPart(s, k + 1)

\* number := '-'? digit+ ('.' digit+)? (('e'|'E') ('+'|'-')? digit+)?
NumGrammar(s) ==
    \E st \in {1, 2} :
        /\ st = 2 => s # <<>> /\ s[1] = Ch.minus
        /\ \E k \in st..Len(s) : NumDigits(s, st, k) /\ NumFractionPart(s, k + 1)

\* C9: a Number node is returned only when the characters consumed for it match
\* the number grammar, whatever the numeric utility accepts; an element that
\* starts with '-' or a digit and fails, fails with incorrect-number-format.
C9_NumberGrammar ==
    pc.parse # "none" =>
        /\ doc # NULL /\ heap.cells[doc].type = "json_number" =>
              NumGrammar(SubSeq(text, 1, src.index))
        /\ doc = NULL /\ (text[1] = Ch.minus \/ is_digit(text[1])) =>
              err.type = "json_incorrect_number_format"

\* two minus signs and a digit yield a Number node
C9_DoubleMinusAccepted ==
    /\ pc.parse = "returned"
    /\ text = <<Ch.minus, Ch.minus, Ch.zero + 1>>
    /\ doc # NULL
    /\ heap.cells[doc].type = "json_number"

\* the number of quote characters in text[1..i]
QuotesUpTo(i) == Cardinality({j \in 1..i : text[j] = Ch.quote})

\* C10: in a text accepted as an object or array every comma is followed by
\* another member or element: no closing bracket stands directly after a comma.
C10_NoBracketAfterComma ==
    (/\ pc.parse # "none"
     /\ doc # NULL
     /\ heap.cells[doc].type \in {"json_object", "json_array"}) =>
        \A i \in 1..(src.index - 1) :
            ~(/\ text[i] = Ch.comma
              /\ text[i + 1] \in {Ch.rbracket, Ch.rbrace}
              /\ QuotesUpTo(i) % 2 = 0)

\* an array with a comma directly before its closing bracket is accepted
C10_TrailingCommaAccepted ==
    /\ pc.parse = "returned"
    /\ text = <<Ch.lbracket, Ch.zero + 1, Ch.comma, Ch.rbracket>>
    /\ doc # NULL
    /\ heap.cells[doc].type = "json_array"
    /\ Len(heap.cells[heap.cells[doc].ptr].items) = 1

\* a letter or an underscore
IdentStart(c) == (c >= 65 /\ c <= 90) \/ (c >= 97 /\ c <= 122) \/ c = 95

\* the member m has a quoted key or a bare key that is an identifier
NamedMember(m) == m.quoted \/ IdentStart(m.key[1])

\* the result of parsing the members ms with every key written between quotes
ParsedQuoted(ms) ==
    parse_json_ext(<<Ch.lbrace>>
                   \o MembersText([i \in DOMAIN ms |-> [ms[i] EXCEPT !.quoted = TRUE]])
                   \o <<Ch.rbrace>>, TRUE, EmptyHeap, numlib)

\* the members ms, whose keys differ, in key-sort order with quoted keys
RefObjectText(ms) ==
    LET ks == RefSorted({ms[i].key : i \in DOMAIN ms})
    IN  <<Ch.lbrace>>
        \o RefJoin([i \in DOMAIN ks |->
                       <<Ch.quote>> \o ks[i] \o <<Ch.quote, Ch.colon, Ch.space>>
                       \o <<ms[CHOOSE j \in DOMAIN ms : ms[j].key = ks[i]].value>>])
        \o <<Ch.rbrace>>

\* C11: an object whose member keys are bare identifiers or quoted strings
\* parses to the same document as the text with every key quoted, which
\* serializes with quoted keys in key-sort order; a member that starts with
\* neither a quote nor a letter nor an underscore fails with expected-name.
C11_BareKeys ==
    pc.parse = "returned" =>
        IF \A i \in DOMAIN items : NamedMember(items[i])
        THEN /\ doc # NULL
             /\ err.type = "json_ok"
             /\ ParsedQuoted(items).ret # NULL
             /\ simple_string(heap, doc)
                   = simple_string(ParsedQuoted(items).h, ParsedQuoted(items).ret)
             /\ (\A i, j \in DOMAIN items : items[i].key = items[j].key => i = j)
                   => simple_string(heap, doc) = RefObjectText(items)
        ELSE doc = NULL /\ err.type = "json_expected_name"

\* the object {b: 1, a: 2} has been parsed
C11_BareKeysParsed ==
    /\ pc.parse = "returned"
    /\ doc # NULL
    /\ items = <<[key |-> <<Ch.b>>, quoted |-> FALSE, value |-> Ch.zero + 1],
                 [key |-> <<Ch.a>>, quoted |-> FALSE, value |-> Ch.zero + 2]>>

\* the result of parsing the element alone
ParsedAlone == parse_json_ext(items[2], TRUE, EmptyHeap, numlib)

\* the text after the element cannot make the element's last token longer
TailApart ==
    \/ items[3] = <<>>
    \/ ParsedAlone.h.cells[ParsedAlone.ret].type \in {"json_object", "json_array", "json_string"}
    \/ /\ ParsedAlone.h.cells[ParsedAlone.ret].type = "json_number"
       /\ ~(items[3][1] >= 48 /\ items[3][1] <= 57)
       /\ items[3][1] \notin {Ch.dot, Ch.e, Ch.E, Ch.plus, Ch.minus}
    \/ /\ ParsedAlone.h.cells[ParsedAlone.ret].type \in {"json_null", "json_boolean"}
       /\ ~IdentStart(items[3][1])

\* C12: a text that parses, followed by further text that cannot extend its
\* last token, parses to the same document with the kind ok, and the cursor
\* stops right after the top-level element.
C12_TrailingTextIgnored ==
    (/\ pc.parse = "returned"
     /\ items[1] = <<>>
     /\ ParsedAlone.ret # NULL
     /\ TailApart) =>
        /\ doc # NULL
        /\ err.type = "json_ok"
        /\ simple_string(heap, doc) = simple_string(ParsedAlone.h, ParsedAlone.ret)
        /\ src.index = Len(items[2])

\* an array followed by a closing bracket and a number followed by a letter
\* have been parsed
C12_TrailingTextParsed ==
    /\ pc.parse = "returned"
    /\ doc # NULL
    /\ items[1] = <<>>
    /\ \/ items[2] = <<Ch.lbracket, Ch.zero + 1, Ch.rbracket>> /\ items[3] = <<Ch.rbracket>>
       \/ items[2] = W_null /\ items[3] = <<Ch.space, Ch.a>>

\* the character of the text at the 1-based offset i, NUL past the end
TextAt(i) == IF i >= 1 /\ i <= Len(text) THEN text[i] ELSE 0

\* the character at the 1-based offset col is the offender the error names
OffenderAt(col) ==
    CASE err.type \in {"json_unknown_symbol", "json_incorrect_escape_character"} ->
            err.text = <<TextAt(col)>>
      [] err.type = "json_unrecognized_entity" ->
            /\ col + Len(err.text) - 1 <= Len(text)
            /\ SubSeq(text, col, col + Len(err.text) - 1) = err.text
      [] err.type = "json_incorrect_number_format" ->
            err.text # <<>> /\ err.text[Len(err.text)] = TextAt(col)
      [] err.type \in {"json_missing_closing_quotation_mark_in_string",
                       "json_missing_closing_bracket", "json_expected_element"} ->
            col = Len(text) + 1
      [] err.type = "json_expected_comma_separator" -> TextAt(col) # Ch.comma
      [] err.type = "json_expected_colon_separator" -> TextAt(col) # Ch.colon
      [] err.type = "json_expected_name" ->
            TextAt(col) # Ch.quote /\ ~IdentStart(TextAt(col))

\* C13: when the parse of a one-line text fails, the reported row is 1 and the
\* reported column is the 1-based offset of the offending character; for
\* unrecognized-entity the offender is the bare word.
C13_ErrorPosition ==
    pc.parse = "returned" /\ doc = NULL /\ err.type # "json_ok" =>
        err.where.row = 1 /\ OffenderAt(err.where.column)

\* the word a is reported at column 2, behind the word
C13_WordReportedBehind ==
    /\ pc.parse = "returned"
    /\ text = <<Ch.a>>
    /\ err.type = "json_unrecognized_entity"
    /\ err.text = <<Ch.a>>
    /\ err.where = [row |-> 1, column |-> 2]

\* the position of the cursor behind the prefix p of a text
RefPosition(p) ==
    LET breaks == {i \in 1..Len(p) : p[i] \in {Ch.lf, Ch.cr}}
        last_break == IF breaks = {} THEN 0 ELSE CHOOSE i \in breaks : \A j \in breaks : j <= i
    IN  [row |-> 1 + Cardinality({i \in 1..Len(p) : p[i] = Ch.lf}),
         column |-> 1 + Len(p) - last_break]

\* C14: with p the consumed prefix of the text, the row is 1 + the number of
\* line feeds in p and the column is 1 + the number of characters of p behind
\* its last line feed or carriage return; a carriage return sets the column to
\* 1 and keeps the row, any other character but a line feed adds 1 to the
\* column.
C14_PositionTracking ==
    /\ [](src.pos = RefPosition(SubSeq(src.text, 1, src.index)))
    /\ [][src'.index # src.index =>
            /\ src'.index = src.index + 1
            /\ src.text[src'.index] = Ch.cr =>
                  src'.pos = [row |-> src.pos.row, column |-> 1]
            /\ src.text[src'.index] \notin {Ch.cr, Ch.lf} =>
                  src'.pos = [row |-> src.pos.row, column |-> src.pos.column + 1]]_vars

\* the cursor stands behind a line feed, a letter, a carriage return and a letter
C14_CursorBehindBreaks ==
    /\ last.op = "next_char"
    /\ text = <<Ch.lf, Ch.a, Ch.cr, Ch.a>>
    /\ src.index = 4
    /\ src.pos = [row |-> 2, column |-> 2]

\* C15: once a non-ok error kind has been written during a parse it is written
\* no second time, no further character is consumed, and the parse returns no
\* document with that kind, that snippet and the position the cursor had when
\* the kind was written, whatever the nesting depth.
C15_FirstErrorWins ==
    pc.parse = "returned" /\ err.log # <<>> =>
        /\ Len(err.log) = 1
        /\ doc = NULL
        /\ err.type = err.log[1].type
        /\ err.type # "json_ok"
        /\ err.text = err.log[1].text
        /\ src = err.log[1].src
        /\ err.where = err.log[1].src.pos

\* an array inside an array has failed for a missing comma
C15_NestedFailure ==
    /\ pc.parse = "returned"
    /\ text = <<Ch.lbracket, Ch.lbracket, Ch.zero + 1, Ch.a>>
    /\ doc = NULL
    /\ Len(err.log) = 1
    /\ err.type = "json_expected_comma_separator"

\* C16: an opening quote followed by well-formed items and no closing quote
\* fails with missing-closing-quotation-mark, an empty snippet and the
\* position reached after consuming every character of the text.
C16_UnterminatedString ==
    (/\ pc.parse = "returned"
     /\ text = <<Ch.quote>> \o Flatten(items)
     /\ \A i \in DOMAIN items : items[i].ok) =>
        /\ doc = NULL
        /\ err.type = "json_missing_closing_quotation_mark_in_string"
        /\ err.text = <<>>
        /\ src.index = Len(text)
        /\ err.where = RefPosition(text)

\* a literal of two items that is not closed has been parsed
C16_UnterminatedParsed ==
    /\ pc.parse = "returned"
    /\ text = <<Ch.quote, Ch.a, Ch.backslash, Ch.quote>>
    /\ Len(items) = 2
    /\ doc = NULL
    /\ err.where = [row |-> 1, column |-> 5]

\* the longest run of letters and underscores at the place of the element
WordRun ==
    LET t == items[2] \o items[3]
        n == CHOOSE k \in 0..Len(t) :
                 /\ \A i \in 1..k : IdentStart(t[i])
                 /\ k = Len(t) \/ ~IdentStart(t[k + 1])
    IN  SubSeq(t, 1, n)

\* the node made for the element: the root, the first item of the root array
\* or the value of the first member of the root object
WordNode ==
    IF items[1] = <<>> THEN doc
    ELSE IF items[1] = <<Ch.lbracket>> THEN heap.cells[heap.cells[doc].ptr].items[1]
    ELSE heap.cells[heap.cells[doc].ptr].pairs[1].value

\* C17: where an element is expected, a maximal run of letters and underscores
\* other than null, true, false fails the parse with unrecognized-entity and
\* the first 16 characters of the run as the snippet; null, true and false
\* make a Null node, Boolean true and Boolean false.
C17_UnrecognizedWord ==
    pc.parse = "returned" /\ WordRun # <<>> =>
        IF WordRun \in {W_null, W_true, W_false}
        THEN /\ err.type # "json_unrecognized_entity"
             /\ items[1] = <<>> => doc # NULL
             /\ doc # NULL =>
                   /\ heap.cells[WordNode].type =
                          (IF WordRun = W_null THEN "json_null" ELSE "json_boolean")
                   /\ WordRun = W_true => heap.cells[WordNode].bool_value
                   /\ WordRun = W_false => ~heap.cells[WordNode].bool_value
        ELSE /\ doc = NULL
             /\ err.type = "json_unrecognized_entity"
             /\ err.text = SubSeq(WordRun, 1, IF Len(WordRun) < 16 THEN Len(WordRun) ELSE 16)

\* the word nul inside an array has been refused
C17_NulRefused ==
    /\ pc.parse = "returned"
    /\ text = <<Ch.lbracket, Ch.n, Ch.u, 108, Ch.rbracket>>
    /\ doc = NULL
    /\ err.text = <<Ch.n, Ch.u, 108>>

\* the first json_error_text_max_length characters of s, or all of s
RefSnippet(s) ==
    SubSeq(s, 1, IF Len(s) < json_error_text_max_length THEN Len(s)
                 ELSE json_error_text_max_length)

\* the element is a run of digits that ends in two points
DigitsTwoPoints ==
    /\ Len(items[2]) > 2
    /\ \A i \in 1..(Len(items[2]) - 2) : items[2][i] >= 48 /\ items[2][i] <= 57
    /\ items[2][Len(items[2]) - 1] = Ch.dot
    /\ items[2][Len(items[2])] = Ch.dot

\* C18: the error snippet is never longer than json_error_text_max_length; a
\* refused number or word longer than that is recorded as its first
\* json_error_text_max_length characters, a shorter one whole.
C18_SnippetBounded ==
    /\ Len(err.text) <= json_error_text_max_length
    /\ pc.parse = "returned" /\ DigitsTwoPoints =>
          err.type = "json_incorrect_number_format" /\ err.text = RefSnippet(items[2])
    /\ pc.parse = "returned" /\ Len(WordRun) > json_error_text_max_length =>
          err.type = "json_unrecognized_entity" /\ err.text = RefSnippet(WordRun)

\* a number of more than json_error_text_max_length characters has been refused
C18_LongNumberCut ==
    /\ pc.parse = "returned"
    /\ DigitsTwoPoints
    /\ Len(items[2]) > json_error_text_max_length
    /\ Len(err.text) = json_error_text_max_length
    /\ err.text[1] = Ch.zero + 1

\* the nodes the container node e holds, in the order of its slots
Held(e) ==
    IF heap.cells[e].type = "json_array" THEN heap.cells[heap.cells[e].ptr].items
    ELSE IF heap.cells[e].type = "json_object"
    THEN [i \in DOMAIN heap.cells[heap.cells[e].ptr].pairs |->
             heap.cells[heap.cells[e].ptr].pairs[i].value]
    ELSE <<>>

RECURSIVE Below(_)
\* the node e and every node under it
Below(e) == {e} \cup UNION {Below(Held(e)[i]) : i \in DOMAIN Held(e)}

\* the roots of the live documents: the one built and the one parsed
TreeRoots ==
    (IF pc.root = "live" THEN {root} ELSE {})
    \cup (IF pc.parse = "returned" /\ doc # NULL THEN {doc} ELSE {})

TreeNodes == UNION {Below(r) : r \in TreeRoots}

\* the slots of live containers that hold the node n
Holders(n) ==
    {s \in {a \in DOMAIN heap.cells : heap.cells[a].tag = "element" /\ heap.frees[a] = 0}
            \X (1..Len(heap.cells)) :
        s[2] \in DOMAIN Held(s[1]) /\ Held(s[1])[s[2]] = n}

RECURSIVE ReachesTop(_, _)
\* the parent chain of e ends within k steps
ReachesTop(e, k) ==
    IF e = NULL THEN TRUE
    ELSE IF k = 0 THEN FALSE
    ELSE ReachesTop(heap.cells[e].parent, k - 1)

\* C19: in the documents built by the constructors and returned by the parser a
\* root has no parent, every other node is held by exactly one slot of one
\* container and its parent is the node of that container, no parent chain
\* runs in a cycle, and the parent of a live node never changes.
C19_TreeShape ==
    /\ [](/\ \A r \in TreeRoots : heap.cells[r].parent = NULL
          /\ \A n \in TreeNodes \ TreeRoots :
                /\ Cardinality(Holders(n)) = 1
                /\ \A s \in Holders(n) : heap.cells[n].parent = s[1]
          /\ \A n \in TreeNodes :
                heap.frees[n] = 0 /\ ReachesTop(n, Len(heap.cells)))
    /\ [][\A a \in DOMAIN heap.cells :
              heap.cells[a].tag = "element" /\ heap'.frees[a] = 0 =>
                  heap'.cells[a].parent = heap.cells[a].parent]_vars

\* a built object and the object parsed from its text both hold two members
C19_TwoTrees ==
    /\ pc.root = "live" /\ pc.parse = "returned" /\ doc # NULL
    /\ heap.cells[root].type = "json_object"
    /\ Len(Held(root)) = 2 /\ Len(Held(doc)) = 2
    /\ heap.cells[Held(doc)[2]].parent = doc

\* the offset in the text of the first item that is not well-formed
FirstBadOffset ==
    LET i == CHOOSE j \in DOMAIN items :
                 ~items[j].ok /\ \A k \in 1..(j - 1) : items[k].ok
    IN  2 + Len(Flatten(SubSeq(items, 1, i - 1)))

\* c is a hexadecimal digit
RefHex(c) == (c >= 48 /\ c <= 57) \/ (c >= 65 /\ c <= 70) \/ (c >= 97 /\ c <= 102)

\* the number of characters behind the u at offset o up to the first one that
\* is no hexadecimal digit, that one included; 5 when the first four all are
RefHexRead(o) ==
    IF \A j \in 1..4 : RefHex(TextAt(o + j)) THEN 5
    ELSE CHOOSE j \in 1..4 :
             ~RefHex(TextAt(o + j)) /\ \A k \in 1..(j - 1) : RefHex(TextAt(o + k))

\* C20: in a string literal a backslash followed by a character other than
\* " \ / b f n r t u, the end of the input included, fails the parse with
\* incorrect-escape-character and that character as the snippet; a \u whose
\* next four characters are not all hexadecimal digits fails it with
\* incorrect-number-format and the characters behind \u up to and including
\* the first that is no hexadecimal digit; no String node is produced.
C20_InvalidEscape ==
    (/\ pc.parse = "returned"
     /\ \E i \in DOMAIN items : ~items[i].ok
     /\ TextAt(FirstBadOffset) = Ch.backslash) =>
        LET c == TextAt(FirstBadOffset + 1)
            n == RefHexRead(FirstBadOffset + 1)
        IN  /\ c \notin {Ch.quote, Ch.backslash, Ch.slash, 98, 102, 110, 114, 116, 117} =>
                  /\ doc = NULL
                  /\ err.type = "json_incorrect_escape_character"
                  /\ err.text = <<c>>
            /\ c = 117 /\ n <= 4 =>
                  /\ doc = NULL
                  /\ err.type = "json_incorrect_number_format"
                  /\ err.text = [j \in 1..n |-> TextAt(FirstBadOffset + 1 + j)]

\* the literal "\u12" has been refused with the snippet 12"
C20_ShortHexRefused ==
    /\ pc.parse = "returned"
    /\ text = <<Ch.quote, Ch.backslash, Ch.u, Ch.zero + 1, Ch.zero + 2, Ch.quote>>
    /\ doc = NULL
    /\ err.type = "json_incorrect_number_format"
    /\ err.text = <<Ch.zero + 1, Ch.zero + 2, Ch.quote>>

\* the character of the text behind the start of the container and the
\* whitespace that follows it, NUL at the end of the input
NextAfterStart ==
    LET rest == SelectSeq(SubSeq(text, Len(items.text) + 1, Len(text)),
                          LAMBDA x : x \notin {Ch.space, Ch.tab, Ch.lf, Ch.cr})
    IN  IF rest = <<>> THEN 0 ELSE rest[1]

\* the character behind the start cannot make the last token of the start longer
StartApart ==
    \/ Len(text) > Len(items.text) /\ text[Len(items.text) + 1] \in {Ch.space, Ch.tab, Ch.lf, Ch.cr}
    \/ /\ ~IdentStart(NextAfterStart)
       /\ ~(NextAfterStart >= 48 /\ NextAfterStart <= 57)
       /\ NextAfterStart # Ch.dot

\* C21: behind a member or element, a next character after whitespace that is
\* neither the closing bracket nor a comma fails with expected-comma; behind a
\* key, anything but a colon fails with expected-colon; the end of the input
\* where a member, an element, a comma or a closing bracket is expected fails
\* with missing-closing-bracket; no document is returned.
C21_StructuralErrors ==
    pc.parse = "returned" /\ StartApart =>
        /\ (/\ items.at = "member"
            /\ NextAfterStart \notin {0, items.close, Ch.comma}) =>
                doc = NULL /\ err.type = "json_expected_comma_separator"
        /\ items.at = "key" /\ NextAfterStart # Ch.colon =>
                doc = NULL /\ err.type = "json_expected_colon_separator"
        /\ items.at \in {"member", "open", "comma"} /\ NextAfterStart = 0 =>
                doc = NULL /\ err.type = "json_missing_closing_bracket"

\* an empty string, a space and a digit in an array have been refused with
\* the kind ok
C21_EmptyStringNoKind ==
    /\ pc.parse = "returned"
    /\ text = <<Ch.lbracket, Ch.quote, Ch.quote, Ch.space, Ch.zero + 1>>
    /\ items.at = "member"
    /\ doc = NULL
    /\ err.type = "json_ok"

\* C22: a member whose colon is followed, after whitespace, by the end of the
\* input, by the closing brace or by a comma fails with expected-element.
C22_ValueExpected ==
    (/\ pc.parse = "returned"
     /\ items.at = "colon"
     /\ NextAfterStart \in {0, Ch.rbrace, Ch.comma}) =>
        doc = NULL /\ err.type = "json_expected_element"

\* a closing brace behind the colon has been reported as an unknown symbol
C22_BraceUnknownSymbol ==
    /\ pc.parse = "returned"
    /\ text = <<Ch.lbrace, Ch.a, Ch.colon, Ch.rbrace>>
    /\ doc = NULL
    /\ err.type = "json_unknown_symbol"
    /\ err.text = <<Ch.rbrace>>

\* the result of parsing the tokens of the text with no whitespace between them
ParsedPlain ==
    parse_json_ext(Flatten([i \in DOMAIN items |-> [text |-> items[i].tok]]),
                   TRUE, EmptyHeap, numlib)

\* the parse of the text agrees with the parse of its tokens in the outcome,
\* the document and the error kind
SameButSnippet ==
    /\ doc = ParsedPlain.ret
    /\ doc # NULL => heap = ParsedPlain.h
    /\ err.type = ParsedPlain.err.type

\* C23 as stated: whitespace in front of the top-level element, behind an
\* opening bracket, around a comma or a colon, or in front of a closing bracket
\* changes neither the outcome, nor the document, nor the error kind, nor the
\* error snippet.
C23_WhitespaceInsensitive ==
    pc.parse = "returned" => SameButSnippet /\ err.text = ParsedPlain.err.text

\* C23 as amended: such whitespace changes neither the outcome, nor the
\* document, nor the error kind, nor the snippet of an error other than
\* incorrect-number-format.
C23_WhitespaceInsensitiveButNumberSnippet ==
    pc.parse = "returned" =>
        /\ SameButSnippet
        /\ err.type # "json_incorrect_number_format" => err.text = ParsedPlain.err.text

\* an object written over several lines has been parsed
C23_SpacedObjectParsed ==
    /\ pc.parse = "returned"
    /\ doc # NULL
    /\ Len(items) = 10
    /\ \A i \in DOMAIN items : items[i].text = <<Ch.lf>> \o items[i].tok
    /\ err.type = "json_ok"

\* the cells of the parsed object doc: its node, its map, its keys and values
ObjectCells ==
    {doc, heap.cells[doc].ptr}
    \cup {heap.cells[heap.cells[doc].ptr].pairs[i].key :
              i \in DOMAIN heap.cells[heap.cells[doc].ptr].pairs}
    \cup {heap.cells[heap.cells[doc].ptr].pairs[i].value :
              i \in DOMAIN heap.cells[heap.cells[doc].ptr].pairs}

\* C24: a text that gives the same key twice in one object parses to an object
\* with one entry for the key, whose value is the last one of the text; the
\* earlier value node is destroyed and no key buffer or value node of the
\* replaced pair stays allocated outside the tree.
C24_ParserUpsert ==
    (/\ pc.parse = "returned"
     /\ doc # NULL
     /\ Len(items) = 2
     /\ items[1].key = items[2].key) =>
        /\ Len(heap.cells[heap.cells[doc].ptr].pairs) = 1
        /\ heap.cells[heap.cells[heap.cells[doc].ptr].pairs[1].key].chars = items[2].key
        /\ print_number(heap.cells[heap.cells[heap.cells[doc].ptr].pairs[1].value].num_value)
              = <<items[2].value>>
        /\ \A a \in ParseAllocs : heap.frees[a] = 0 => a \in ObjectCells

\* the text {a: 1, a: 2} has been parsed: the value 1 and the second key
\* buffer are still allocated and belong to no entry
C24_ReplacedPairLeaked ==
    /\ pc.parse = "returned"
    /\ doc # NULL
    /\ Len(items) = 2
    /\ items[1].key = <<Ch.a>> /\ items[2].key = <<Ch.a>>
    /\ ~items[1].quoted /\ ~items[2].quoted
    /\ Len(heap.cells[heap.cells[doc].ptr].pairs) = 1
    /\ Cardinality({a \in ParseAllocs \ ObjectCells : heap.frees[a] = 0}) = 2
    /\ \E a \in ParseAllocs \ ObjectCells :
          heap.frees[a] = 0 /\ heap.cells[a].type = "json_number"

\* C25: the cursor never leaves the text and reads the end marker at its end
\* without moving; the indices at the loops of the parser never decrease, and
\* between two tests of the same loop (the member loop of parse_object, the
\* element loop of parse_array, the character loops of parse_string and of
\* parse_number_element) at least one character is consumed.
C25_LoopsConsume ==
    /\ src.index >= 0 /\ src.index <= Len(src.text)
    /\ src.index = Len(src.text) =>
          next_char(src).src = src /\ next_char(src).c = Ch.nul /\ get_char(src) = Ch.nul
    /\ \A k \in DOMAIN src.loops :
          /\ src.loops[k].index >= 0 /\ src.loops[k].index <= src.index
          /\ \A j \in 1..(k - 1) :
                /\ src.loops[j].index <= src.loops[k].index
                /\ src.loops[j].loop = src.loops[k].loop =>
                      src.loops[j].index < src.loops[k].index

\* the text - has been parsed: the first iteration of the digit loop of
\* parse_number_element began and ended at the end of the text
C25_IdleDigitLoop ==
    /\ pc.parse = "returned"
    /\ text = <<Ch.minus>>
    /\ src.index = 1
    /\ src.loops = <<[loop |-> "parse_number_element", index |-> 1],
                     [loop |-> "parse_number_element", index |-> 1]>>
    /\ err.type = "json_incorrect_number_format"

\* C26: when the end of the input is reached inside a container, before its
\* first element, behind an element or behind a comma, the snippet of the
\* missing-closing-bracket error is the bracket that closes that container.
C26_MissingBracketNamed ==
    (/\ pc.parse = "returned"
     /\ items.at \in {"open", "member", "comma"}
     /\ NextAfterStart = 0
     /\ err.type = "json_missing_closing_bracket") =>
        err.text = <<items.close>>

\* the text [ has been refused with the snippet }
C26_ArrayNamedBrace ==
    /\ pc.parse = "returned"
    /\ text = <<Ch.lbracket>>
    /\ doc = NULL
    /\ err.type = "json_missing_closing_bracket"
    /\ err.text = <<Ch.rbrace>>

====
